---- MODULE Spec2Model ----
(***************************************************************************)
(* Open-WA-CRM: the message pipeline (webhook -> Celery tasks -> rows ->   *)
(* AI reply -> send to Meta -> delivery status -> WebSocket push) and the  *)
(* relational rows it works on, as a state machine.                        *)
(*                                                                         *)
(* Celery tasks and HTTP requests whose handlers make several database     *)
(* queries are processes: each query that another worker can interleave    *)
(* with is one step, the position is the field pc of the task or request.  *)
(* The database enforces its constraints (unique, foreign key) at each     *)
(* write, as PostgreSQL/SQLite do for the Django models.                   *)
(***************************************************************************)
EXTENDS Integers, Sequences, FiniteSets, TLC

VARIABLES
    accounts,       \* WhatsAppAccount rows, named by their unique phone_number_id
    ai_config,      \* accounts with an AIConfig that is enabled and has an api_key
    contacts,       \* Contact rows
    conversations,  \* Conversation rows
    messages,       \* Message rows
    queue,          \* Celery tasks: waiting ("queued") or at a step of their run
    inflight,       \* HTTP API requests in the middle of their handler
    issued,         \* message ids Meta has issued for messages it accepted
    ops,            \* number of external requests received so far
    last            \* what the last step answered, returned and pushed

vars == <<accounts, ai_config, contacts, conversations, messages, queue,
          inflight, issued, ops, last>>

db == <<accounts, ai_config, contacts, conversations, messages>>

-----------------------------------------------------------------------------
(* Bounds of the model. *)

\* external requests (webhook calls, API calls, deletions) in one behaviour
MaxOps == 2

(* Program constants. *)

\* @shared_task(..., max_retries=3) of the two send tasks
SEND_MAX_RETRIES == 3
\* self.retry(exc=exc, countdown=30) of the two send tasks
SEND_COUNTDOWN == 30
\* HTTP status codes the views answer
HTTP_200_OK == 200
HTTP_201_CREATED == 201
HTTP_404_NOT_FOUND == 404

-----------------------------------------------------------------------------
(* The values rows and tasks are made of. *)

\* phone_number_id values a webhook URL can carry; "pn_unknown" is never registered
RegisteredPhoneNumberIds == {"pn1"}
PhoneNumberIds == RegisteredPhoneNumberIds \cup {"pn_unknown"}

\* phone numbers of the customers who write in the behaviours checked
Phones == {"573001"}

\* Message.DeliveryStatus.choices
DeliveryStatus == {"sent", "delivered", "read", "failed"}

\* values of the "status" key of a webhook status object: the four the model
\* declares and one it does not ("deleted", which Meta sends for a deleted message)
WebhookStatuses == {"sent", "delivered", "read", "failed", "deleted"}

\* primary keys: a row's uuid4 is named after the request that created the row
NoMsg == [op |-> -1, tag |-> "none", c |-> -1]
MsgId(op, tag, c) == [op |-> op, tag |-> tag, c |-> c]
NoConv == <<-1, -1>>
ConvId(op, c) == <<op, c>>
NoContact == -1

\* whatsapp_id values: Meta's wamids and the temporary ids the code makes up
NoWa == [kind |-> "none", m |-> NoMsg, n |-> 0]
\* f"local_{uuid.uuid4().hex[:16]}", f"ai_{uuid.uuid4().hex}", f"temp-{uuid.uuid4()}"
TempId(prefix, m) == [kind |-> prefix, m |-> m, n |-> 0]
TempPrefixes == {"local_", "ai_", "temp-"}
\* the wamid of the n-th message a customer sends
IncomingWamid(n) == [kind |-> "wamid", m |-> NoMsg, n |-> n]
IncomingWamids == {IncomingWamid(1)}
\* the wamid Meta answers to the n-th POST of our message m
IssuedWamid(m, n) == [kind |-> "wamid", m |-> m, n |-> n]

NoPayload == [messages |-> <<>>, statuses |-> <<>>]

\* entry[].changes[].value of a webhook body: its "messages" and its "statuses"
Payloads ==
    {[messages |-> ms, statuses |-> ss] :
        ms \in {<<>>} \cup {<<[from |-> p, id |-> w]>> : p \in Phones, w \in IncomingWamids},
        ss \in {<<>>} \cup {<<[id |-> w, status |-> s]>> : w \in issued, s \in WebhookStatuses}}

NoEvents == <<>>

\* one Celery task: its name, its arguments, and the locals of its run
Task(name, id) ==
    [name |-> name, id |-> id, pc |-> "queued", retries |-> 0, countdown |-> 0,
     pnid |-> "none", payload |-> NoPayload, from |-> "none", wid |-> NoWa,
     status |-> "none", contact |-> NoContact, conv |-> NoConv, msg |-> NoMsg,
     resp |-> "none", posts |-> 0]

\* what a step answers: the handler, its request, its result, the HTTP status of
\* a view's response, the events it sent to the channel layer, the conversation
\* a get_or_create handed back, the phone_number_id and body of a webhook
\* request, and the number of POSTs made to Meta
Outcome(op, id, result, http, events) ==
    [op |-> op, id |-> id, result |-> result, http |-> http, events |-> events,
     conv |-> NoConv, pnid |-> "none", payload |-> NoPayload, posts |-> 0]

-----------------------------------------------------------------------------
(* The database: lookups and constraints. *)

AccountByPhoneNumberIdAny(pnid) == pnid
AccountByPhoneNumberId(pnid) == IF pnid \in accounts THEN pnid ELSE "none"

ContactsOf(account, phone) ==
    {c \in contacts : c.account = account /\ c.phone_number = phone}

ConversationsOf(account, contact) ==
    {c \in conversations : c.account = account /\ c.contact = contact}

ConversationById(id) == {c \in conversations : c.id = id}

MessageById(id) == {m \in messages : m.id = id}

MessagesByWhatsappId(wid) == {m \in messages : m.whatsapp_id = wid}

\* Contact.Meta.unique_together = ['account', 'phone_number']
ContactUnique(account, phone) == ContactsOf(account, phone) = {}

\* Conversation.Meta.unique_together = ['account', 'contact']
ConversationUniqueOff(account, contact) == TRUE
ConversationUnique(account, contact) == ConversationsOf(account, contact) = {}

\* Message.whatsapp_id: unique=True (checked against the other rows)
WhatsappIdUniqueOff(id, wid) == TRUE
WhatsappIdUnique(id, wid) ==
    \A m \in messages : m.whatsapp_id = wid => m.id = id

\* foreign keys Contact.account, Conversation.account, Conversation.contact,
\* Message.conversation: the referenced row exists when the row is written
AccountExists(account) == account \in accounts
ContactExists(contact) == \E c \in contacts : c.id = contact
ConversationExists(conv) == ConversationById(conv) # {}

Contact(id, account, phone) ==
    [id |-> id, account |-> account, phone_number |-> phone]

Conversation(id, account, contact) ==
    [id |-> id, account |-> account, contact |-> contact]

Message(id, conv, wid, direction, type, status, ai) ==
    [id |-> id, conversation |-> conv, whatsapp_id |-> wid, direction |-> direction,
     message_type |-> type, delivery_status |-> status, ai_generated |-> ai]

\* post_save of a created Message: notify_new_message sends a new_message event
\* to 'inbox_updates'; an exception of the channel layer is logged and dropped
NewMessageEvent(m, ws) ==
    IF ws
    THEN <<[type |-> "send_new_message", message_id |-> m.id,
            conversation_id |-> m.conversation, whatsapp_id |-> m.whatsapp_id,
            delivery_status |-> m.delivery_status]>>
    ELSE NoEvents

-----------------------------------------------------------------------------
(* The initial state: one registered account, with or without an enabled   *)
(* AI configuration, to which one customer has written one message some    *)
(* time ago (the rows process_incoming_message made of it); the workers    *)
(* are idle. Other customers have not written yet.                         *)

KnownPhone == "573000"
KnownContact == Contact(0, "pn1", KnownPhone)
KnownConversation == Conversation(ConvId(0, 0), "pn1", 0)
KnownMessage ==
    Message(MsgId(0, "in", 0), ConvId(0, 0), IncomingWamid(0), "incoming", "text",
            "delivered", FALSE)

Init ==
    /\ accounts = RegisteredPhoneNumberIds
    /\ ai_config \in SUBSET RegisteredPhoneNumberIds
    /\ contacts = {KnownContact}
    /\ conversations = {KnownConversation}
    /\ messages = {KnownMessage}
    /\ queue = {}
    /\ inflight = {}
    /\ issued = {}
    /\ ops = 0
    /\ last = Outcome("init", 0, "none", 0, NoEvents)

-----------------------------------------------------------------------------
(* config_api.views.webhook, POST *)

webhook_post ==
    /\ ops < MaxOps
    /\ \E pnid \in PhoneNumberIds, payload \in Payloads :
        LET account == AccountByPhoneNumberId(pnid)
            id == ops + 1
        IN  /\ ops' = id
            /\ IF account = "none"
               THEN /\ last' = [Outcome("webhook", id, "Not Found", HTTP_404_NOT_FOUND,
                                        NoEvents)
                                  EXCEPT !.pnid = pnid, !.payload = payload]
                    /\ queue' = queue
               ELSE /\ queue' = queue \cup
                         {[Task("process_webhook_payload", id) EXCEPT
                              !.pnid = pnid, !.payload = payload]}
                    /\ last' = [Outcome("webhook", id, "ok", HTTP_200_OK, NoEvents)
                                  EXCEPT !.pnid = pnid, !.payload = payload]
    /\ UNCHANGED <<db, inflight, issued>>

(* chat.tasks.process_webhook_payload *)

process_webhook_payload(t) ==
    /\ t.name = "process_webhook_payload"
    /\ t.pc = "queued"
    /\ LET incoming == {[Task("process_incoming_message", t.id) EXCEPT
                            !.pnid = t.pnid,
                            !.from = t.payload.messages[i].from,
                            !.wid = t.payload.messages[i].id] :
                        i \in 1..Len(t.payload.messages)}
           statuses == {[Task("process_status_update", t.id) EXCEPT
                            !.wid = t.payload.statuses[i].id,
                            !.status = t.payload.statuses[i].status] :
                        i \in 1..Len(t.payload.statuses)}
       IN  queue' = (queue \ {t}) \cup incoming \cup statuses
    /\ last' = Outcome(t.name, t.id, "success", 0, NoEvents)
    /\ UNCHANGED <<db, inflight, issued, ops>>

(* chat.tasks.process_incoming_message *)

\* a task that returns or raises leaves the queue
Finish(t) == queue \ {t}

\* a task that moves to its next step
Step(t, u) == (queue \ {t}) \cup {u}

\* AIBotService.is_enabled: the account has an AIConfig, enabled, with an api_key
is_enabledAlways(account) == TRUE
is_enabled(account) == account \in ai_config

\* Conversation.objects.get_or_create, its first query: the row when there is one
ConversationGet(t, account, contact) ==
    LET found == ConversationsOf(account, contact)
    IN  IF found # {}
        THEN [t EXCEPT !.pc = "message_create", !.contact = contact,
                       !.conv = (CHOOSE c \in found : TRUE).id]
        ELSE [t EXCEPT !.pc = "conversation_create", !.contact = contact]

\* account lookup, then Contact.objects.get_or_create, its first query
pim_start(t) ==
    /\ t.name = "process_incoming_message"
    /\ t.pc = "queued"
    /\ LET account == AccountByPhoneNumberId(t.pnid)
           found == ContactsOf(account, t.from)
       IN  IF account = "none"
           THEN /\ queue' = Finish(t)
                /\ last' = Outcome(t.name, t.id, "account_not_found", 0, NoEvents)
           ELSE /\ queue' = Step(t,
                        IF found # {}
                        THEN ConversationGet(t, account, (CHOOSE c \in found : TRUE).id)
                        ELSE [t EXCEPT !.pc = "contact_create"])
                /\ last' = Outcome(t.name, t.id, "running", 0, NoEvents)
    /\ UNCHANGED <<db, inflight, issued, ops>>

\* Contact.objects.get_or_create: create, and on IntegrityError get again
pim_contact_create(t) ==
    /\ t.name = "process_incoming_message"
    /\ t.pc = "contact_create"
    /\ LET account == t.pnid
           again == ContactsOf(account, t.from)
       IN  IF ContactUnique(account, t.from) /\ AccountExists(account)
           THEN /\ contacts' = contacts \cup {Contact(t.id, account, t.from)}
                /\ queue' = Step(t, ConversationGet(t, account, t.id))
                /\ last' = Outcome(t.name, t.id, "running", 0, NoEvents)
           ELSE /\ contacts' = contacts
                /\ IF again # {}
                   THEN /\ queue' = Step(t, ConversationGet(t, account,
                                              (CHOOSE c \in again : TRUE).id))
                        /\ last' = Outcome(t.name, t.id, "running", 0, NoEvents)
                   ELSE /\ queue' = Finish(t)
                        /\ last' = Outcome(t.name, t.id, "IntegrityError", 0, NoEvents)
    /\ UNCHANGED <<accounts, ai_config, conversations, messages, inflight, issued, ops>>

\* Conversation.objects.get_or_create: create, and on IntegrityError get again
pim_conversation_create(t) ==
    /\ t.name = "process_incoming_message"
    /\ t.pc = "conversation_create"
    /\ LET account == t.pnid
           again == ConversationsOf(account, t.contact)
           id == ConvId(t.id, t.contact)
       IN  IF /\ ConversationUnique(account, t.contact)
              /\ AccountExists(account)
              /\ ContactExists(t.contact)
           THEN /\ conversations' = conversations \cup {Conversation(id, account, t.contact)}
                /\ queue' = Step(t, [t EXCEPT !.pc = "message_create", !.conv = id])
                /\ last' = Outcome(t.name, t.id, "running", 0, NoEvents)
           ELSE /\ conversations' = conversations
                /\ IF again # {}
                   THEN /\ queue' = Step(t, [t EXCEPT !.pc = "message_create",
                                                !.conv = (CHOOSE c \in again : TRUE).id])
                        /\ last' = Outcome(t.name, t.id, "running", 0, NoEvents)
                   ELSE /\ queue' = Finish(t)
                        /\ last' = Outcome(t.name, t.id, "IntegrityError", 0, NoEvents)
    /\ UNCHANGED <<accounts, ai_config, contacts, messages, inflight, issued, ops>>

\* the tasks process_incoming_message enqueues once the Message row is saved
AITasksAfterSave(t, account) ==
    IF is_enabled(account)
    THEN {[Task("process_ai_response", t.id) EXCEPT !.conv = t.conv]}
    ELSE {}

\* Message.objects.create, the post_save signals, and the AI bot integration
pim_message_create(t) ==
    /\ t.name = "process_incoming_message"
    /\ t.pc = "message_create"
    /\ LET id == MsgId(t.id, "in", 0)
           m == Message(id, t.conv, t.wid, "incoming", "text", "delivered", FALSE)
       IN  IF ConversationExists(t.conv) /\ WhatsappIdUnique(id, t.wid)
           THEN /\ messages' = messages \cup {m}
                /\ queue' = Finish(t) \cup AITasksAfterSave(t, t.pnid)
                /\ \E ws \in BOOLEAN :
                      last' = Outcome(t.name, t.id, "saved", 0, NewMessageEvent(m, ws))
           ELSE /\ messages' = messages
                /\ queue' = Finish(t)
                /\ last' = Outcome(t.name, t.id, "IntegrityError", 0, NoEvents)
    /\ UNCHANGED <<accounts, ai_config, contacts, conversations, inflight, issued, ops>>

process_incoming_message(t) ==
    \/ pim_start(t)
    \/ pim_contact_create(t)
    \/ pim_conversation_create(t)
    \/ pim_message_create(t)

(* ai_bot.tasks.process_ai_response *)

\* Conversation.get, then AIBotService(conversation).is_enabled()
ai_start(t) ==
    /\ t.name = "process_ai_response"
    /\ t.pc = "queued"
    /\ LET found == ConversationById(t.conv)
       IN  IF found = {}
           THEN /\ queue' = Finish(t)
                /\ last' = Outcome(t.name, t.id, "error", 0, NoEvents)
           ELSE IF ~ is_enabled((CHOOSE c \in found : TRUE).account)
           THEN /\ queue' = Finish(t)
                /\ last' = Outcome(t.name, t.id, "skipped", 0, NoEvents)
           ELSE /\ queue' = Step(t, [t EXCEPT !.pc = "generate"])
                /\ last' = Outcome(t.name, t.id, "running", 0, NoEvents)
    /\ UNCHANGED <<db, inflight, issued, ops>>

\* what the provider answers to service.get_response()
ProviderAnswers == {"text", "empty", "provider_error"}

\* the tasks process_ai_response enqueues after it has saved the reply
SendTasksForReplyWrongId(t, id) ==
    {[Task("send_whatsapp_message", t.id) EXCEPT !.msg = MsgId(t.id, "in", 0)]}
SendTasksForReply(t, id) ==
    {[Task("send_whatsapp_message", t.id) EXCEPT !.msg = id]}

\* what the task returns: 'success' at the end of the try block, 'skipped' for
\* no response text, 'error' from the except clauses for AIBotServiceError (the
\* provider failed) and for Exception (the row could not be created)
AIResultRaises(answer, saved) ==
    IF answer = "text" /\ saved THEN "success"
    ELSE IF answer = "empty" THEN "skipped"
    ELSE "raised"
AIResult(answer, saved) ==
    IF answer = "provider_error" THEN "error"
    ELSE IF answer = "empty" THEN "skipped"
    ELSE IF saved THEN "success"
    ELSE "error"

\* service.get_response(), Message.objects.create and send_whatsapp_message.delay
ai_generate(t) ==
    /\ t.name = "process_ai_response"
    /\ t.pc = "generate"
    /\ \E answer \in ProviderAnswers :
        LET id == MsgId(t.id, "ai", 0)
            wid == TempId("ai_", id)
            m == Message(id, t.conv, wid, "outgoing", "text", "sent", TRUE)
        IN  IF answer = "provider_error"
            THEN /\ messages' = messages
                 /\ queue' = Finish(t)
                 /\ last' = Outcome(t.name, t.id, AIResult(answer, FALSE), 0, NoEvents)
            ELSE IF answer = "empty"
            THEN /\ messages' = messages
                 /\ queue' = Finish(t)
                 /\ last' = Outcome(t.name, t.id, AIResult(answer, FALSE), 0, NoEvents)
            ELSE IF ConversationExists(t.conv) /\ WhatsappIdUnique(id, wid)
            THEN /\ messages' = messages \cup {m}
                 /\ queue' = Finish(t) \cup SendTasksForReply(t, id)
                 /\ \E ws \in BOOLEAN :
                       last' = Outcome(t.name, t.id, AIResult(answer, TRUE), 0,
                                       NewMessageEvent(m, ws))
            ELSE /\ messages' = messages
                 /\ queue' = Finish(t)
                 /\ last' = Outcome(t.name, t.id, AIResult(answer, FALSE), 0, NoEvents)
    /\ UNCHANGED <<accounts, ai_config, contacts, conversations, inflight, issued, ops>>

process_ai_response(t) ==
    \/ ai_start(t)
    \/ ai_generate(t)

(* chat.tasks.send_whatsapp_message and chat.tasks.send_whatsapp_template *)

SendTaskNames == {"send_whatsapp_message", "send_whatsapp_template"}

\* what the POST to graph.facebook.com/.../messages comes back with: 200 with
\* messages[0].id, 200 without an id, another status, or an httpx exception
MetaAnswers == {"ok_id", "ok_noid", "error", "exception"}

\* raise self.retry(exc=exc, countdown=30) of a task bound with max_retries=3:
\* the task is queued again, or, its retries used up, the exception is raised
SendRetryForever(t) ==
    {[t EXCEPT !.pc = "queued", !.resp = "none",
               !.retries = @ + 1, !.countdown = SEND_COUNTDOWN]}
SendRetry(t) ==
    IF t.retries < SEND_MAX_RETRIES
    THEN {[t EXCEPT !.pc = "queued", !.resp = "none",
                    !.retries = @ + 1, !.countdown = SEND_COUNTDOWN]}
    ELSE {}

SendRetryResult(t) == IF t.retries < SEND_MAX_RETRIES THEN "retry" ELSE "failure"

\* Message.objects.get(pk=message_id), the payload, and client.post(...)
send_post(t) ==
    /\ t.name \in SendTaskNames
    /\ t.pc = "queued"
    /\ IF MessageById(t.msg) = {}
       THEN /\ queue' = Finish(t)
            /\ issued' = issued
            /\ last' = Outcome(t.name, t.id, "error", 0, NoEvents)
       ELSE \E answer \in MetaAnswers :
              IF answer = "exception"
              THEN /\ queue' = Finish(t) \cup SendRetry([t EXCEPT !.posts = @ + 1])
                   /\ issued' = issued
                   /\ last' = [Outcome(t.name, t.id, SendRetryResult(t), 0, NoEvents)
                                 EXCEPT !.posts = 1]
              ELSE /\ queue' = Step(t, [t EXCEPT !.pc = "save", !.resp = answer,
                                                 !.posts = @ + 1])
                   /\ issued' = IF answer = "ok_id"
                                THEN issued \cup {IssuedWamid(t.msg, t.posts + 1)}
                                ELSE issued
                   /\ last' = [Outcome(t.name, t.id, "running", 0, NoEvents)
                                 EXCEPT !.posts = 1]
    /\ UNCHANGED <<db, inflight, ops>>

\* the fields message.save(update_fields=[...]) writes after the response
SavedAfterResponseKeepsId(m, t) ==
    IF t.resp = "error"
    THEN [m EXCEPT !.delivery_status = "failed"]
    ELSE [m EXCEPT !.delivery_status = "sent"]
SavedAfterResponse(m, t) ==
    IF t.resp = "error"
    THEN [m EXCEPT !.delivery_status = "failed"]
    ELSE [m EXCEPT !.delivery_status = "sent",
                   !.whatsapp_id = IF t.resp = "ok_id"
                                   THEN IssuedWamid(t.msg, t.posts) ELSE @]

\* the branch on response.status_code, the save, and the return or the retry
send_save(t) ==
    /\ t.name \in SendTaskNames
    /\ t.pc = "save"
    /\ LET found == MessageById(t.msg)
           m == CHOOSE m \in found : TRUE
           saved == SavedAfterResponse(m, t)
       IN  IF found # {} /\ WhatsappIdUnique(saved.id, saved.whatsapp_id)
           THEN /\ messages' = (messages \ {m}) \cup {saved}
                /\ IF t.resp = "error"
                   THEN /\ queue' = Finish(t) \cup SendRetry(t)
                        /\ last' = Outcome(t.name, t.id, SendRetryResult(t), 0, NoEvents)
                   ELSE /\ queue' = Finish(t)
                        /\ last' = Outcome(t.name, t.id, "sent", 0, NoEvents)
           ELSE /\ messages' = messages
                /\ queue' = Finish(t) \cup SendRetry(t)
                /\ last' = Outcome(t.name, t.id, SendRetryResult(t), 0, NoEvents)
    /\ UNCHANGED <<accounts, ai_config, contacts, conversations, inflight, issued, ops>>

send_whatsapp(t) ==
    \/ send_post(t)
    \/ send_save(t)

(* chat.tasks.process_status_update *)

\* the value written to Message.delivery_status for a webhook status
StoredStatus(status) == status

\* group_send to 'inbox_updates' of the status_update event; an exception of
\* the channel layer is caught and logged
StatusUpdateEventStale(m, wid, status, ws) ==
    IF ws
    THEN <<[type |-> "send_status_update", message_id |-> m.id,
            conversation_id |-> m.conversation, whatsapp_id |-> wid,
            delivery_status |-> m.delivery_status]>>
    ELSE NoEvents
StatusUpdateEvent(m, wid, status, ws) ==
    IF ws
    THEN <<[type |-> "send_status_update", message_id |-> m.id,
            conversation_id |-> m.conversation, whatsapp_id |-> wid,
            delivery_status |-> status]>>
    ELSE NoEvents

\* the else branch: "raise self.retry(countdown=2, max_retries=5)" in a task
\* declared without bind=True. The name self is not defined: NameError, and the
\* except clause raises NameError again at self.retry_exception. The task fails
\* and is not queued again.
StatusNotFound(t) == Finish(t)

process_status_update(t) ==
    /\ t.name = "process_status_update"
    /\ t.pc = "queued"
    /\ LET found == MessagesByWhatsappId(t.wid)
           m == CHOOSE m \in found : TRUE
       IN  IF found # {}
           THEN /\ messages' = (messages \ {m}) \cup
                        {[m EXCEPT !.delivery_status = StoredStatus(t.status)]}
                /\ queue' = Finish(t)
                /\ \E ws \in BOOLEAN :
                      last' = Outcome(t.name, t.id, "updated", 0,
                                      StatusUpdateEvent(m, t.wid, t.status, ws))
           ELSE /\ messages' = messages
                /\ queue' = StatusNotFound(t)
                /\ last' = Outcome(t.name, t.id, "NameError", 0, NoEvents)
    /\ UNCHANGED <<accounts, ai_config, contacts, conversations, inflight, issued, ops>>

(* chat.views.MessageViewSet.send_text and send_template *)

\* pk values of the URL: the conversations there are, and one there is not
ConversationPks == {c.id : c \in conversations} \cup {NoConv}

send_message_view(view, tag, type, task) ==
    /\ ops < MaxOps
    /\ \E pk \in ConversationPks :
        LET op == ops + 1
            id == MsgId(op, tag, 0)
            m == Message(id, pk, TempId("local_", id), "outgoing", type, "sent", FALSE)
        IN  /\ ops' = op
            /\ IF ConversationById(pk) = {}
               THEN /\ messages' = messages
                    /\ queue' = queue
                    /\ last' = Outcome(view, op, "Conversation not found",
                                       HTTP_404_NOT_FOUND, NoEvents)
               ELSE /\ messages' = messages \cup {m}
                    /\ queue' = queue \cup {[Task(task, op) EXCEPT !.msg = id]}
                    /\ \E ws \in BOOLEAN :
                          last' = Outcome(view, op, "created", HTTP_201_CREATED,
                                          NewMessageEvent(m, ws))
    /\ UNCHANGED <<accounts, ai_config, contacts, conversations, inflight, issued>>

send_text == send_message_view("send_text", "text", "text", "send_whatsapp_message")

send_template ==
    send_message_view("send_template", "template", "template", "send_whatsapp_template")

(* Requests to the REST API whose handler another request or task can       *)
(* interleave with: they live in inflight between their queries.            *)

Request(name, id) ==
    [name |-> name, id |-> id, pc |-> "start", account |-> "none",
     contact |-> NoContact, conv |-> NoConv, todo |-> {}, success |-> 0, failed |-> 0]

Answer(r) == inflight \ {r}

Continue(r, u) == (inflight \ {r}) \cup {u}

ContactIds == {c.id : c \in contacts}

ContactById(id) == {c \in contacts : c.id = id}

(* chat.serializers.ConversationCreateSerializer.create, behind             *)
(* ConversationViewSet.create                                               *)

\* the PrimaryKeyRelatedFields are validated, then get_or_create's first query
conversation_create_start ==
    /\ ops < MaxOps
    /\ \E contact \in ContactIds \cup {NoContact}, account \in PhoneNumberIds :
        LET op == ops + 1
            found == ConversationsOf(account, contact)
            r == [Request("conversation_create", op) EXCEPT
                     !.account = account, !.contact = contact]
        IN  /\ ops' = op
            /\ IF ~ (ContactExists(contact) /\ AccountExists(account))
               THEN /\ inflight' = inflight
                    /\ last' = Outcome(r.name, op, "invalid", 400, NoEvents)
               ELSE IF found # {}
               THEN /\ inflight' = inflight
                    /\ last' = [Outcome(r.name, op, "existing", HTTP_201_CREATED, NoEvents)
                                  EXCEPT !.conv = (CHOOSE c \in found : TRUE).id]
               ELSE /\ inflight' = inflight \cup {[r EXCEPT !.pc = "create"]}
                    /\ last' = Outcome(r.name, op, "running", 0, NoEvents)
    /\ UNCHANGED <<db, queue, issued>>

\* get_or_create: create, and on IntegrityError get again
conversation_create_finish(r) ==
    /\ r.name = "conversation_create"
    /\ r.pc = "create"
    /\ LET again == ConversationsOf(r.account, r.contact)
           id == ConvId(r.id, r.contact)
       IN  IF /\ ConversationUnique(r.account, r.contact)
              /\ AccountExists(r.account)
              /\ ContactExists(r.contact)
           THEN /\ conversations' = conversations \cup
                                       {Conversation(id, r.account, r.contact)}
                /\ last' = [Outcome(r.name, r.id, "created", HTTP_201_CREATED, NoEvents)
                              EXCEPT !.conv = id]
           ELSE /\ conversations' = conversations
                /\ IF again # {}
                   THEN last' = [Outcome(r.name, r.id, "existing after IntegrityError",
                                         HTTP_201_CREATED, NoEvents)
                                   EXCEPT !.conv = (CHOOSE c \in again : TRUE).id]
                   ELSE last' = Outcome(r.name, r.id, "IntegrityError", 500, NoEvents)
    /\ inflight' = Answer(r)
    /\ UNCHANGED <<accounts, ai_config, contacts, messages, queue, issued, ops>>

(* contacts.views.ContactViewSet.bulk_send_template and                     *)
(* chat.services.WhatsAppNotificationService.send_template_to_contact:      *)
(* per contact, get or create the conversation, create the template         *)
(* message with a temporary whatsapp_id, enqueue send_whatsapp_template.    *)

TemplateSenders == {"bulk_send_template", "send_template_to_contact"}

\* the contact the loop is at
Current(r) == CHOOSE c \in r.todo : \A d \in r.todo : c <= d

\* Conversation.objects.get_or_create, its first query, for the current contact
TemplateGet(r) ==
    IF r.todo = {}
    THEN r
    ELSE LET found == ConversationsOf(r.account, Current(r))
         IN  IF found # {}
             THEN [r EXCEPT !.pc = "message", !.contact = Current(r),
                            !.conv = (CHOOSE c \in found : TRUE).id]
             ELSE [r EXCEPT !.pc = "create", !.contact = Current(r)]

\* the loop goes on to the next contact, or the handler answers
TemplateNext(r, u) ==
    IF u.todo = {} THEN Answer(r) ELSE Continue(r, TemplateGet(u))

TemplateResultSuccess(u) ==
    IF u.todo # {} THEN "running" ELSE "success"
TemplateResult(u) ==
    IF u.todo # {} THEN "running" ELSE IF u.failed = 0 THEN "success" ELSE "failed"

\* bulk_send_template: the contacts with id in ids, each with its own account
bulk_send_template_start ==
    /\ ops < MaxOps
    /\ \E ids \in SUBSET ContactIds :
        LET op == ops + 1
            account == IF ids = {} THEN "none"
                       ELSE (CHOOSE c \in contacts : c.id \in ids).account
            r == [Request("bulk_send_template", op) EXCEPT
                     !.todo = ids, !.account = account]
        IN  /\ ops' = op
            /\ IF ids = {}
               THEN /\ inflight' = inflight
                    /\ last' = Outcome(r.name, op, "no ids", 400, NoEvents)
               ELSE /\ inflight' = inflight \cup {TemplateGet(r)}
                    /\ last' = Outcome(r.name, op, "running", 0, NoEvents)
    /\ UNCHANGED <<db, queue, issued>>

\* send_template_to_contact(contact, account, template_data): the caller hands
\* in two rows it has loaded
send_template_to_contact_start ==
    /\ ops < MaxOps
    /\ \E contact \in ContactIds, account \in accounts :
        LET op == ops + 1
            r == [Request("send_template_to_contact", op) EXCEPT
                     !.todo = {contact}, !.account = account]
        IN  /\ ops' = op
            /\ inflight' = inflight \cup {TemplateGet(r)}
            /\ last' = Outcome(r.name, op, "running", 0, NoEvents)
    /\ UNCHANGED <<db, queue, issued>>

\* get_or_create: create, and on IntegrityError get again; an exception ends
\* this contact (bulk: failed += 1; service: SendTemplateResult(success=False))
template_conversation_create(r) ==
    /\ r.name \in TemplateSenders
    /\ r.pc = "create"
    /\ LET again == ConversationsOf(r.account, r.contact)
           id == ConvId(r.id, r.contact)
           failed == [r EXCEPT !.todo = @ \ {r.contact}, !.failed = @ + 1]
       IN  IF /\ ConversationUnique(r.account, r.contact)
              /\ AccountExists(r.account)
              /\ ContactExists(r.contact)
           THEN /\ conversations' = conversations \cup
                                       {Conversation(id, r.account, r.contact)}
                /\ inflight' = Continue(r, [r EXCEPT !.pc = "message", !.conv = id])
                /\ last' = [Outcome(r.name, r.id, "running", 0, NoEvents)
                              EXCEPT !.conv = id]
           ELSE /\ conversations' = conversations
                /\ IF again # {}
                   THEN /\ inflight' = Continue(r, [r EXCEPT !.pc = "message",
                                          !.conv = (CHOOSE c \in again : TRUE).id])
                        /\ last' = [Outcome(r.name, r.id, "running", 0, NoEvents)
                                      EXCEPT !.conv = (CHOOSE c \in again : TRUE).id]
                   ELSE /\ inflight' = TemplateNext(r, failed)
                        /\ last' = Outcome(r.name, r.id, TemplateResult(failed), 0, NoEvents)
    /\ UNCHANGED <<accounts, ai_config, contacts, messages, queue, issued, ops>>

\* Message.objects.create(..., whatsapp_id=f"temp-{uuid.uuid4()}") and
\* send_whatsapp_template.delay(str(message.id), ...)
template_message_create(r) ==
    /\ r.name \in TemplateSenders
    /\ r.pc = "message"
    /\ LET id == MsgId(r.id, "template", r.contact)
           wid == TempId("temp-", id)
           m == Message(id, r.conv, wid, "outgoing", "template", "sent", FALSE)
           done == [r EXCEPT !.todo = @ \ {r.contact}, !.success = @ + 1]
           failed == [r EXCEPT !.todo = @ \ {r.contact}, !.failed = @ + 1]
       IN  IF ConversationExists(r.conv) /\ WhatsappIdUnique(id, wid)
           THEN /\ messages' = messages \cup {m}
                /\ queue' = queue \cup
                       {[Task("send_whatsapp_template", r.id) EXCEPT !.msg = id]}
                /\ inflight' = TemplateNext(r, done)
                /\ \E ws \in BOOLEAN :
                      last' = Outcome(r.name, r.id, TemplateResult(done), 0,
                                      NewMessageEvent(m, ws))
           ELSE /\ messages' = messages
                /\ queue' = queue
                /\ inflight' = TemplateNext(r, failed)
                /\ last' = Outcome(r.name, r.id, TemplateResult(failed), 0, NoEvents)
    /\ UNCHANGED <<accounts, ai_config, contacts, conversations, issued, ops>>

(* Deletions. Model.delete() collects the rows that refer to the deleted    *)
(* ones through a ForeignKey with on_delete=CASCADE and deletes them all    *)
(* in one transaction.                                                      *)

\* Contact.account: on_delete=CASCADE
CascadeContacts(delAccounts) == {c \in contacts : c.account \in delAccounts}

\* Conversation.account and Conversation.contact: on_delete=CASCADE
CascadeConversations(delAccounts, delContacts) ==
    {c \in conversations :
        c.account \in delAccounts \/ c.contact \in {d.id : d \in delContacts}}

\* Message.conversation: on_delete=CASCADE
CascadeMessagesNone(delConversations) == {}
CascadeMessages(delConversations) ==
    {m \in messages : m.conversation \in {c.id : c \in delConversations}}

Delete(delAccounts, delContacts, delConversations) ==
    LET cs == delContacts \cup CascadeContacts(delAccounts)
        vs == delConversations \cup CascadeConversations(delAccounts, cs)
    IN  /\ accounts' = accounts \ delAccounts
        /\ ai_config' = ai_config \ delAccounts
        /\ contacts' = contacts \ cs
        /\ conversations' = conversations \ vs
        /\ messages' = messages \ CascadeMessages(vs)

\* config_api.views.WhatsAppAccountViewSet: DELETE of an account of the user
account_destroy ==
    /\ ops < MaxOps
    /\ \E a \in accounts :
        /\ Delete({a}, {}, {})
        /\ last' = Outcome("account_destroy", ops + 1, "deleted", 204, NoEvents)
    /\ ops' = ops + 1
    /\ UNCHANGED <<queue, inflight, issued>>

\* contacts.views.ContactViewSet.bulk_delete (DELETE of one contact is ids = {id})
bulk_delete ==
    /\ ops < MaxOps
    /\ \E ids \in SUBSET ContactIds :
        IF ids = {}
        THEN /\ UNCHANGED db
             /\ last' = Outcome("bulk_delete", ops + 1, "no ids", 400, NoEvents)
        ELSE /\ Delete({}, {c \in contacts : c.id \in ids}, {})
             /\ last' = Outcome("bulk_delete", ops + 1, "deleted", HTTP_200_OK, NoEvents)
    /\ ops' = ops + 1
    /\ UNCHANGED <<queue, inflight, issued>>

\* chat.views.ConversationViewSet.destroy
conversation_destroy ==
    /\ ops < MaxOps
    /\ \E pk \in ConversationPks :
        IF ConversationById(pk) = {}
        THEN /\ UNCHANGED db
             /\ last' = Outcome("conversation_destroy", ops + 1, "Not found",
                                HTTP_404_NOT_FOUND, NoEvents)
        ELSE /\ Delete({}, {}, ConversationById(pk))
             /\ last' = [Outcome("conversation_destroy", ops + 1, "deleted",
                                 HTTP_200_OK, NoEvents) EXCEPT !.conv = pk]
    /\ ops' = ops + 1
    /\ UNCHANGED <<queue, inflight, issued>>

(* ai_bot.views.AIConfigViewSet: create, update and destroy *)

\* the AIConfig of an account of the user is saved enabled with an api_key, or
\* is saved disabled, or is deleted
ai_config_save ==
    /\ ops < MaxOps
    /\ \E account \in accounts, enabled \in BOOLEAN :
        /\ ai_config' = IF enabled THEN ai_config \cup {account}
                                   ELSE ai_config \ {account}
        /\ last' = [Outcome("ai_config_save", ops + 1,
                            IF enabled THEN "enabled" ELSE "disabled", HTTP_200_OK,
                            NoEvents) EXCEPT !.pnid = account]
    /\ ops' = ops + 1
    /\ UNCHANGED <<accounts, contacts, conversations, messages, queue, inflight, issued>>

Next ==
    \/ webhook_post
    \/ \E t \in queue : process_webhook_payload(t)
    \/ \E t \in queue : process_incoming_message(t)
    \/ \E t \in queue : process_ai_response(t)
    \/ \E t \in queue : send_whatsapp(t)
    \/ \E t \in queue : process_status_update(t)
    \/ send_text
    \/ send_template
    \/ conversation_create_start
    \/ \E r \in inflight : conversation_create_finish(r)
    \/ bulk_send_template_start
    \/ send_template_to_contact_start
    \/ \E r \in inflight : template_conversation_create(r)
    \/ \E r \in inflight : template_message_create(r)
    \/ account_destroy
    \/ bulk_delete
    \/ conversation_destroy
    \/ ai_config_save

Spec == Init /\ [][Next]_vars

-----------------------------------------------------------------------------
(* config_api.views.webhook, GET: Meta's verification of the webhook URL.   *)

HTTP_400_BAD_REQUEST == 400
HTTP_403_FORBIDDEN == 403

\* request.query_params.get(name) of a parameter the URL does not carry
None == "<None>"

\* bool(s) of an optional string
Truthy(s) == s \notin {None, ""}

\* WhatsAppAccount.webhook_verify_token of each account (the serializer
\* requires it, and refuses a blank one)
webhook_verify_token == [account \in RegisteredPhoneNumberIds |-> "verify-" \o account]

HubModes == {None, "", "subscribe", "unsubscribe"}
HubTokens == {None, "", "wrong"} \cup
             {webhook_verify_token[account] : account \in RegisteredPhoneNumberIds}
HubChallenges == {None, "", "1158201444", "challenge"}

\* account.webhook_verify_token == token
TokenMatchesAny(account, token) == TRUE
TokenMatches(account, token) == webhook_verify_token[account] = token

\* HttpResponse(content): make_bytes encodes a str as it is and anything else
\* as str(content)
make_bytes(content) == IF content = None THEN "None" ELSE content

\* the request and the response of a GET
WebhookGetOutcome(pnid, mode, token, challenge, http, body) ==
    [op |-> "webhook_get", pnid |-> pnid, mode |-> mode, token |-> token,
     challenge |-> challenge, http |-> http, body |-> body]

webhook_get ==
    /\ \E pnid \in PhoneNumberIds, mode \in HubModes, token \in HubTokens,
          challenge \in HubChallenges :
        LET account == AccountByPhoneNumberId(pnid)
            Response(http, body) ==
                WebhookGetOutcome(pnid, mode, token, challenge, http, body)
        IN  last' =
              IF account = "none"
              THEN Response(HTTP_404_NOT_FOUND, "Not Found")
              ELSE IF mode = "subscribe" /\ Truthy(token)
                   THEN IF TokenMatches(account, token)
                        THEN Response(HTTP_200_OK, make_bytes(challenge))
                        ELSE Response(HTTP_403_FORBIDDEN, "Forbidden")
                   ELSE Response(HTTP_400_BAD_REQUEST, "Bad Request")
    /\ UNCHANGED <<db, queue, inflight, issued, ops>>

NextWebhookGet == webhook_get

SpecWebhookGet == Init /\ [][NextWebhookGet]_vars

-----------------------------------------------------------------------------
(* config_api.serializers.WhatsAppAccountSerializer and                     *)
(* ai_bot.serializers.AIConfigSerializer: what the API answers for a row.   *)

\* values of the EncryptedTextFields, as from_db_value hands them to the code
SecretValues == {"", "secret-A", "secret-B"}

\* rows of WhatsAppAccount
AccountInstances ==
    [id : {"acc-1"}, owner : {"user1", "user2"}, name : {"Ventas", "Soporte"},
     phone_number_id : RegisteredPhoneNumberIds, business_account_id : {"waba-1"},
     access_token : SecretValues, webhook_verify_token : SecretValues,
     status : {"active", "disconnected"}]

\* rows of AIConfig, with the name of their account
AIConfigInstances ==
    [id : {"cfg-1"}, account : {"acc-1"}, account_name : {"Ventas", "Soporte"},
     enabled : BOOLEAN, provider : {"gemini"}, api_key : SecretValues,
     system_prompt : {"", "Eres un asistente"}, max_history_messages : {10}]

\* Meta.fields = '__all__' of WhatsAppAccountSerializer
AccountFields ==
    {"id", "owner", "name", "phone_number_id", "business_account_id", "access_token",
     "webhook_verify_token", "status"}

\* Meta.fields of AIConfigSerializer (created_at and updated_at left out)
AIConfigFields ==
    {"id", "account", "account_name", "enabled", "provider", "api_key", "system_prompt",
     "max_history_messages"}

\* Meta.extra_kwargs: the fields each serializer declares write_only
WriteOnlyNone(serializer) == {}
WriteOnly(serializer) ==
    IF serializer = "WhatsAppAccountSerializer"
    THEN {"access_token", "webhook_verify_token"}
    ELSE {"api_key"}

\* ModelSerializer.to_representation: every field that is not write_only
to_representation(instance, fields, write_only) ==
    [f \in fields \ write_only |-> instance[f]]

\* WhatsAppAccountSerializer.to_representation
WhatsAppAccountSerializer(instance) ==
    [has_access_token |-> instance.access_token # "",
     has_webhook_token |-> instance.webhook_verify_token # ""]
        @@ to_representation(instance, AccountFields, WriteOnly("WhatsAppAccountSerializer"))

\* AIConfigSerializer.to_representation
AIConfigSerializer(instance) ==
    [has_api_key |-> instance.api_key # ""]
        @@ to_representation(instance, AIConfigFields, WriteOnly("AIConfigSerializer"))

\* a response of the account endpoints for one row
serialize_account ==
    /\ \E instance \in AccountInstances :
          last' = [op |-> "WhatsAppAccountSerializer", instance |-> instance,
                   data |-> WhatsAppAccountSerializer(instance)]
    /\ UNCHANGED <<db, queue, inflight, issued, ops>>

\* a response of the AI configuration endpoints for one row
serialize_ai_config ==
    /\ \E instance \in AIConfigInstances :
          last' = [op |-> "AIConfigSerializer", instance |-> instance,
                   data |-> AIConfigSerializer(instance)]
    /\ UNCHANGED <<db, queue, inflight, issued, ops>>

NextSerializers ==
    \/ serialize_account
    \/ serialize_ai_config

SpecSerializers == Init /\ [][NextSerializers]_vars

-----------------------------------------------------------------------------
(* The body stored for an outgoing template message:                        *)
(* chat.services.WhatsAppNotificationService._render_template_body,         *)
(* chat.views.MessageViewSet.send_template and                              *)
(* contacts.views.ContactViewSet.bulk_send_template.                        *)
(* A text is the sequence of its pieces; a placeholder such as {{1}} is one *)
(* piece, in a template's BODY and in a parameter's value alike.            *)

\* longest list of parameters a request sends
MaxParams == 2

\* f"{{{{{key}}}}}"
Placeholder(key) == "{{" \o key \o "}}"

\* f"[Template: {template_name}]"
FallbackBody(template_name) == <<"[Template: " \o template_name \o "]">>

\* str.replace(old, new): every occurrence of the piece old becomes new
RECURSIVE replace(_, _, _)
replace(text, old, new) ==
    IF text = <<>> THEN <<>>
    ELSE (IF Head(text) = old THEN new ELSE <<Head(text)>>) \o replace(Tail(text), old, new)

\* rows of WhatsAppTemplate: the BODY texts, the components and the rows
BodyTexts ==
    {<<>>,
     <<"Hola ", Placeholder("1"), " y ", Placeholder("2")>>,
     <<"Hola ", Placeholder("nombre"), ": ", Placeholder("1")>>}
TemplateComponents ==
    {[is_dict |-> TRUE, list |-> <<>>],
     [is_dict |-> FALSE, list |-> <<>>],
     [is_dict |-> FALSE, list |-> <<[type |-> "HEADER", text |-> <<"Aviso">>]>>]}
    \cup {[is_dict |-> FALSE, list |-> <<[type |-> "BODY", text |-> text]>>] :
            text \in BodyTexts}
    \cup {[is_dict |-> FALSE,
           list |-> <<[type |-> "HEADER", text |-> <<"Aviso">>],
                      [type |-> "BODY", text |-> text]>>] : text \in BodyTexts \ {<<>>}}
NoTemplate == [account |-> "none", name |-> "none", language |-> "none",
               status |-> "none", components |-> [is_dict |-> TRUE, list |-> <<>>]]
WhatsAppTemplates ==
    [account : RegisteredPhoneNumberIds, name : {"hello_world"}, language : {"es"},
     status : {"APPROVED", "PENDING"}, components : TemplateComponents]

\* the parameters a request sends in its 'body' component
Parameters ==
    {[type |-> "text", text |-> <<"Ana">>, parameter_name |-> None],
     [type |-> "text", text |-> <<Placeholder("2")>>, parameter_name |-> None],
     [type |-> "text", text |-> <<"Luis">>, parameter_name |-> "nombre"],
     [type |-> "text", text |-> <<Placeholder("1")>>, parameter_name |-> "nombre"],
     [type |-> "currency", text |-> <<"USD 5">>, parameter_name |-> None]}
ParameterLists ==
    UNION {[1..n -> Parameters] : n \in 0..MaxParams}
\* the components of a request: none, a header only, or a body with parameters
SentComponents ==
    {<<>>, <<[type |-> "header", parameters |-> <<>>]>>}
    \cup {<<[type |-> "body", parameters |-> ps]>> : ps \in ParameterLists}

\* WhatsAppTemplate.objects.filter(account, name, language, status='APPROVED').first()
TemplateFilter(template, account, name, language) ==
    IF /\ template.account = account
       /\ template.name = name
       /\ template.language = language
       /\ template.status = "APPROVED"
    THEN template
    ELSE NoTemplate

\* next((c for c in components if c.get('type') == type), None), as the index
\* of the component, 0 for None
RECURSIVE ComponentOfType(_, _, _)
ComponentOfType(components, type, i) ==
    IF i > Len(components) THEN 0
    ELSE IF components[i].type = type THEN i
    ELSE ComponentOfType(components, type, i + 1)

\* named_values[parameter_name] = value: a dict keeps the place of a key it has
RECURSIVE DictSet(_, _, _, _)
DictSet(items, key, value, i) ==
    IF i > Len(items) THEN Append(items, <<key, value>>)
    ELSE IF items[i][1] = key THEN [items EXCEPT ![i] = <<key, value>>]
    ELSE DictSet(items, key, value, i + 1)

\* the loop over params: the text parameters with a parameter_name
RECURSIVE NamedValues(_, _, _)
NamedValues(params, i, items) ==
    IF i > Len(params) THEN items
    ELSE IF params[i].type = "text" /\ Truthy(params[i].parameter_name)
    THEN NamedValues(params, i + 1,
                     DictSet(items, params[i].parameter_name, params[i].text, 1))
    ELSE NamedValues(params, i + 1, items)

\* the loop over params: the text parameters without a parameter_name
PositionalValues(params) ==
    LET unnamed == SelectSeq(params, LAMBDA p :
                        p.type = "text" /\ ~ Truthy(p.parameter_name))
    IN  [i \in 1..Len(unnamed) |-> unnamed[i].text]

\* for key, value in named_values.items(): text = text.replace("{{key}}", value)
RECURSIVE ReplaceNamed(_, _, _)
ReplaceNamed(text, items, i) ==
    IF i > Len(items) THEN text
    ELSE ReplaceNamed(replace(text, Placeholder(items[i][1]), items[i][2]), items, i + 1)

\* for index, value in enumerate(positional_values):
\*     text = text.replace("{{index + 1}}", value)
RECURSIVE ReplacePositional(_, _, _)
ReplacePositional(text, values, i) ==
    IF i > Len(values) THEN text
    ELSE ReplacePositional(replace(text, Placeholder(ToString(i)), values[i]), values, i + 1)

\* WhatsAppNotificationService._apply_parameters
_apply_parameters(text, components) ==
    LET sent_body == ComponentOfType(components, "body", 1)
    IN  IF sent_body = 0 \/ components[sent_body].parameters = <<>>
        THEN text
        ELSE LET params == components[sent_body].parameters
             IN  ReplacePositional(
                     ReplaceNamed(text, NamedValues(params, 1, <<>>), 1),
                     PositionalValues(params), 1)

\* WhatsAppNotificationService._extract_body_component, 0 for None
_extract_body_component(components) ==
    IF components.list = <<>> \/ components.is_dict
    THEN 0
    ELSE ComponentOfType(components.list, "BODY", 1)

\* WhatsAppNotificationService._render_template_body
_render_template_body(template, account, template_name, template_language, components) ==
    LET found == TemplateFilter(template, account, template_name, template_language)
        body_component == _extract_body_component(found.components)
    IN  IF found = NoTemplate THEN FallbackBody(template_name)
        ELSE IF body_component = 0 THEN FallbackBody(template_name)
        ELSE IF found.components.list[body_component].text = <<>>
        THEN FallbackBody(template_name)
        ELSE _apply_parameters(found.components.list[body_component].text, components)

\* the rendering written out in MessageViewSet.send_template and again in
\* ContactViewSet.bulk_send_template: iterating a dict of components gives no
\* BODY component
view_rendered_body(template, account, template_name, template_language, components) ==
    LET found == TemplateFilter(template, account, template_name, template_language)
        body_component == IF found.components.is_dict THEN 0
                          ELSE ComponentOfType(found.components.list, "BODY", 1)
        sent_body == ComponentOfType(components, "body", 1)
    IN  IF found # NoTemplate /\ body_component # 0
           /\ found.components.list[body_component].text # <<>>
        THEN LET text == found.components.list[body_component].text
             IN  IF sent_body # 0 /\ components[sent_body].parameters # <<>>
                 THEN LET params == components[sent_body].parameters
                      IN  ReplacePositional(
                              ReplaceNamed(text, NamedValues(params, 1, <<>>), 1),
                              PositionalValues(params), 1)
                 ELSE text
        ELSE FallbackBody(template_name)

TemplateRenderers == {"send_template", "bulk_send_template", "send_template_to_contact"}

\* a request to send a template, and the template row there is (or none)
InitTemplates ==
    /\ accounts = RegisteredPhoneNumberIds
    /\ ai_config = {}
    /\ contacts = {KnownContact}
    /\ conversations = {KnownConversation}
    /\ messages = {KnownMessage}
    /\ queue = {}
    /\ inflight = {}
    /\ issued = {}
    /\ ops = 0
    /\ \E template \in WhatsAppTemplates \cup {NoTemplate},
          template_name \in {"hello_world", "promo"},
          template_language \in {"es", "en"},
          components \in SentComponents,
          by \in TemplateRenderers :
        last = [op |-> "request", by |-> by, template |-> template,
                template_name |-> template_name,
                template_language |-> template_language, components |-> components,
                body |-> <<>>]

\* the body the view or the service renders for the request
render_template_body ==
    /\ last.op = "request"
    /\ last' = [last EXCEPT
                  !.op = "render_template_body",
                  !.body = IF last.by = "send_template_to_contact"
                           THEN _render_template_body(
                                    last.template, "pn1", last.template_name,
                                    last.template_language, last.components)
                           ELSE view_rendered_body(
                                    last.template, "pn1", last.template_name,
                                    last.template_language, last.components)]
    /\ UNCHANGED <<db, queue, inflight, issued, ops>>

NextTemplates == render_template_body

SpecTemplates == InitTemplates /\ [][NextTemplates]_vars

-----------------------------------------------------------------------------
(* Who can reach which row through the REST API:                            *)
(* config_api.views.WhatsAppAccountViewSet and ai_bot.views.AIConfigViewSet,*)
(* both ModelViewSets. In this specification a row of accounts carries its  *)
(* owner, [id, owner], and ai_config holds the ids of the accounts that     *)
(* have an AIConfig row (AIConfig.account is a OneToOneField).              *)

\* request.user of the authenticated requests
Users == {"u1", "u2"}

\* WhatsAppAccount.owner: null=True
NoUser == None

AccountPks == {"a1", "a2"}

WhatsAppAccount(pk, owner) == [id |-> pk, owner |-> owner]

\* WhatsAppAccount.objects.filter(owner=self.request.user)
AccountQuerysetAll(user) == accounts
AccountQueryset(user) == {a \in accounts : a.owner = user}

\* AIConfig.objects.filter(account__owner=self.request.user)
AIConfigQueryset(user) ==
    {c \in ai_config : \E a \in accounts : a.id = c /\ a.owner = user}

\* self.fields['account'].queryset = WhatsAppAccount.objects.filter(owner=request.user)
AccountFieldQueryset(user) == {a.id : a \in AccountQueryset(user)}

\* get_object(): the row of the view's queryset with the pk of the URL, or 404
AccountObject(user, pk) == {a \in AccountQueryset(user) : a.id = pk}
AIConfigObject(user, pk) == {c \in AIConfigQueryset(user) : c = pk}

\* what a view answers: the rows in its response
ApiOutcome(op, user, pk, result, data) ==
    [op |-> op, user |-> user, pk |-> pk, result |-> result, data |-> data]

InitOwnership ==
    /\ \E pks \in SUBSET AccountPks : \E owner \in [pks -> Users \cup {NoUser}] :
          /\ accounts = {WhatsAppAccount(pk, owner[pk]) : pk \in pks}
          /\ ai_config \in SUBSET pks
    /\ contacts = {}
    /\ conversations = {}
    /\ messages = {}
    /\ queue = {}
    /\ inflight = {}
    /\ issued = {}
    /\ ops = 0
    /\ last = ApiOutcome("init", NoUser, None, "none", {})

\* ListModelMixin.list over get_queryset()
WhatsAppAccountViewSet_list ==
    /\ \E user \in Users :
          last' = ApiOutcome("account_list", user, None, "ok", AccountQueryset(user))
    /\ UNCHANGED <<db, queue, inflight, issued, ops>>

\* RetrieveModelMixin.retrieve: get_object()
WhatsAppAccountViewSet_retrieve ==
    /\ \E user \in Users, pk \in AccountPks :
          last' = IF AccountObject(user, pk) = {}
                  THEN ApiOutcome("account_retrieve", user, pk, "not found", {})
                  ELSE ApiOutcome("account_retrieve", user, pk, "ok", AccountObject(user, pk))
    /\ UNCHANGED <<db, queue, inflight, issued, ops>>

\* CreateModelMixin.create: owner is a field of the serializer ('__all__'), and
\* perform_create's serializer.save(owner=self.request.user) overrides it
WhatsAppAccountViewSet_create ==
    /\ \E user \in Users, pk \in AccountPks, owner \in Users \cup {NoUser} :
          IF \E a \in accounts : a.id = pk
          THEN /\ accounts' = accounts
               /\ last' = ApiOutcome("account_create", user, pk, "invalid", {})
          ELSE /\ accounts' = accounts \cup {WhatsAppAccount(pk, user)}
               /\ last' = ApiOutcome("account_create", user, pk, "ok",
                                     {WhatsAppAccount(pk, user)})
    /\ UNCHANGED <<ai_config, contacts, conversations, messages, queue, inflight,
                   issued, ops>>

\* UpdateModelMixin.update: get_object(), then serializer.save(); owner is a
\* writable field of the serializer
WhatsAppAccountViewSet_update ==
    /\ \E user \in Users, pk \in AccountPks, owner \in Users \cup {NoUser} :
          IF AccountObject(user, pk) = {}
          THEN /\ accounts' = accounts
               /\ last' = ApiOutcome("account_update", user, pk, "not found", {})
          ELSE /\ accounts' = (accounts \ AccountObject(user, pk))
                                  \cup {WhatsAppAccount(pk, owner)}
               /\ last' = ApiOutcome("account_update", user, pk, "ok",
                                     {WhatsAppAccount(pk, owner)})
    /\ UNCHANGED <<ai_config, contacts, conversations, messages, queue, inflight,
                   issued, ops>>

\* DestroyModelMixin.destroy: get_object(), then delete(); AIConfig.account is
\* on_delete=CASCADE
WhatsAppAccountViewSet_destroy ==
    /\ \E user \in Users, pk \in AccountPks :
          IF AccountObject(user, pk) = {}
          THEN /\ accounts' = accounts
               /\ ai_config' = ai_config
               /\ last' = ApiOutcome("account_destroy", user, pk, "not found", {})
          ELSE /\ accounts' = accounts \ AccountObject(user, pk)
               /\ ai_config' = ai_config \ {pk}
               /\ last' = ApiOutcome("account_destroy", user, pk, "ok", {})
    /\ UNCHANGED <<contacts, conversations, messages, queue, inflight, issued, ops>>

AIConfigViewSet_list ==
    /\ \E user \in Users :
          last' = ApiOutcome("ai_config_list", user, None, "ok", AIConfigQueryset(user))
    /\ UNCHANGED <<db, queue, inflight, issued, ops>>

AIConfigViewSet_retrieve ==
    /\ \E user \in Users, pk \in AccountPks :
          last' = IF AIConfigObject(user, pk) = {}
                  THEN ApiOutcome("ai_config_retrieve", user, pk, "not found", {})
                  ELSE ApiOutcome("ai_config_retrieve", user, pk, "ok", {pk})
    /\ UNCHANGED <<db, queue, inflight, issued, ops>>

\* create: the account field takes a pk of its queryset, and the OneToOneField
\* one that has no AIConfig yet
AIConfigViewSet_create ==
    /\ \E user \in Users, account \in AccountPks :
          IF account \in AccountFieldQueryset(user) /\ account \notin ai_config
          THEN /\ ai_config' = ai_config \cup {account}
               /\ last' = ApiOutcome("ai_config_create", user, account, "ok", {account})
          ELSE /\ ai_config' = ai_config
               /\ last' = ApiOutcome("ai_config_create", user, account, "invalid", {})
    /\ UNCHANGED <<accounts, contacts, conversations, messages, queue, inflight,
                   issued, ops>>

\* update: get_object(), then the account field as in create
AIConfigViewSet_update ==
    /\ \E user \in Users, pk \in AccountPks, account \in AccountPks :
          IF AIConfigObject(user, pk) = {}
          THEN /\ ai_config' = ai_config
               /\ last' = ApiOutcome("ai_config_update", user, pk, "not found", {})
          ELSE IF /\ account \in AccountFieldQueryset(user)
                  /\ account = pk \/ account \notin ai_config
          THEN /\ ai_config' = (ai_config \ {pk}) \cup {account}
               /\ last' = ApiOutcome("ai_config_update", user, pk, "ok", {account})
          ELSE /\ ai_config' = ai_config
               /\ last' = ApiOutcome("ai_config_update", user, pk, "invalid", {})
    /\ UNCHANGED <<accounts, contacts, conversations, messages, queue, inflight,
                   issued, ops>>

AIConfigViewSet_destroy ==
    /\ \E user \in Users, pk \in AccountPks :
          IF AIConfigObject(user, pk) = {}
          THEN /\ ai_config' = ai_config
               /\ last' = ApiOutcome("ai_config_destroy", user, pk, "not found", {})
          ELSE /\ ai_config' = ai_config \ {pk}
               /\ last' = ApiOutcome("ai_config_destroy", user, pk, "ok", {})
    /\ UNCHANGED <<accounts, contacts, conversations, messages, queue, inflight,
                   issued, ops>>

NextOwnership ==
    \/ WhatsAppAccountViewSet_list
    \/ WhatsAppAccountViewSet_retrieve
    \/ WhatsAppAccountViewSet_create
    \/ WhatsAppAccountViewSet_update
    \/ WhatsAppAccountViewSet_destroy
    \/ AIConfigViewSet_list
    \/ AIConfigViewSet_retrieve
    \/ AIConfigViewSet_create
    \/ AIConfigViewSet_update
    \/ AIConfigViewSet_destroy

SpecOwnership == InitOwnership /\ [][NextOwnership]_vars

-----------------------------------------------------------------------------
(* The real-time push: chat.signals.notify_new_message (post_save of        *)
(* Message) and chat.consumers.ChatConsumer. In this specification inflight *)
(* holds the ChatConsumers that are connected, each with its channel of the *)
(* channel layer and the frames it has sent to its client, and issued is    *)
(* the sequence of the events sent to the group 'inbox_updates'.            *)

\* the WebSocket connections that come and go
ConsumerIds == {"c1", "c2"}

\* the places that create a Message row
MessageKinds == {"incoming", "manual", "template", "ai"}

\* the row Message.objects.create makes at each of them
CreatedMessage(kind, op) ==
    LET id == MsgId(op, kind, 0)
        conv == KnownConversation.id
    IN  CASE kind = "incoming" ->
                Message(id, conv, IncomingWamid(op), "incoming", "text", "delivered", FALSE)
          [] kind = "manual" ->
                Message(id, conv, TempId("local_", id), "outgoing", "text", "sent", FALSE)
          [] kind = "template" ->
                Message(id, conv, TempId("temp-", id), "outgoing", "template", "sent", FALSE)
          [] kind = "ai" ->
                Message(id, conv, TempId("ai_", id), "outgoing", "text", "sent", TRUE)

\* @receiver(post_save, sender=Message): if created: ... group_send(...),
\* any exception of it logged and dropped
notify_new_messageAlways(instance, created, ws) == NewMessageEvent(instance, ws)
notify_new_message(instance, created, ws) ==
    IF created THEN NewMessageEvent(instance, ws) ELSE NoEvents

\* channel_layer.group_send('inbox_updates', event): the event goes to the
\* channel of every consumer in the group
group_send(events) == {[c EXCEPT !.channel = @ \o events] : c \in inflight}

\* a consumer after connect(): in the group, the welcome frame sent; joined is
\* the number of events the group had been sent before
ChatConsumer(id, joined) ==
    [name |-> "ChatConsumer", id |-> id, joined |-> joined, channel |-> <<>>,
     client |-> <<[type |-> "connection_established", message |-> "none"]>>]

InitInbox ==
    /\ accounts = RegisteredPhoneNumberIds
    /\ ai_config = {}
    /\ contacts = {KnownContact}
    /\ conversations = {KnownConversation}
    /\ messages = {}
    /\ queue = {}
    /\ inflight = {}
    /\ issued = <<>>
    /\ ops = 0
    /\ last = Outcome("init", 0, "none", 0, NoEvents)

\* ChatConsumer.connect: group_add, accept, the welcome frame
consumer_connect ==
    /\ \E id \in ConsumerIds :
          /\ \A c \in inflight : c.id # id
          /\ inflight' = inflight \cup {ChatConsumer(id, Len(issued))}
    /\ last' = Outcome("connect", ops, "connected", 0, NoEvents)
    /\ UNCHANGED <<db, queue, issued, ops>>

\* ChatConsumer.disconnect: group_discard
consumer_disconnect ==
    /\ \E c \in inflight : inflight' = inflight \ {c}
    /\ last' = Outcome("disconnect", ops, "disconnected", 0, NoEvents)
    /\ UNCHANGED <<db, queue, issued, ops>>

\* ChatConsumer.send_new_message(event): the handler of an event of type
\* 'send_new_message' sends a new_message frame with the event's message
consumer_send_new_message ==
    /\ \E c \in inflight :
          /\ c.channel # <<>>
          /\ inflight' = (inflight \ {c}) \cup
                {[c EXCEPT !.channel = Tail(@),
                           !.client = Append(@, [type |-> "new_message",
                                                 message |-> Head(c.channel)])]}
    /\ last' = Outcome("send_new_message", ops, "sent", 0, NoEvents)
    /\ UNCHANGED <<db, queue, issued, ops>>

\* Message.objects.create(...) at one of the places, with its post_save
message_create ==
    /\ ops < MaxOps
    /\ \E kind \in MessageKinds, ws \in BOOLEAN :
          LET m == CreatedMessage(kind, ops + 1)
              events == notify_new_message(m, TRUE, ws)
          IN  /\ messages' = messages \cup {m}
              /\ issued' = issued \o events
              /\ inflight' = group_send(events)
              /\ last' = Outcome("message_create", ops + 1,
                                 IF ws THEN "pushed" ELSE "push failed", 0, events)
    /\ ops' = ops + 1
    /\ UNCHANGED <<accounts, ai_config, contacts, conversations, queue>>

\* message.save(update_fields=[...]) of a stored row: a send task stores Meta's
\* id with delivery_status 'sent', process_status_update stores a status
message_save ==
    /\ \E m \in messages, ws \in BOOLEAN, fields \in {"whatsapp_id", "delivery_status"} :
          LET saved == IF fields = "whatsapp_id"
                       THEN [m EXCEPT !.whatsapp_id = IssuedWamid(m.id, 1),
                                      !.delivery_status = "sent"]
                       ELSE [m EXCEPT !.delivery_status = "read"]
              events == notify_new_message(saved, FALSE, ws)
          IN  /\ messages' = (messages \ {m}) \cup {saved}
              /\ issued' = issued \o events
              /\ inflight' = group_send(events)
              /\ last' = Outcome("message_save", ops, "saved", 0, events)
    /\ UNCHANGED <<accounts, ai_config, contacts, conversations, queue, ops>>

NextInbox ==
    \/ consumer_connect
    \/ consumer_disconnect
    \/ consumer_send_new_message
    \/ message_create
    \/ message_save

\* a connected consumer's event loop runs its handlers
SpecInbox ==
    InitInbox /\ [][NextInbox]_vars /\ WF_vars(consumer_send_new_message)

-----------------------------------------------------------------------------
(* common.utils.convert_media_for_whatsapp. A path is the sequence of its   *)
(* pieces: "/" separators, names, and a last piece that is the extension.   *)

\* settings.MEDIA_URL = '/media/' and a MEDIA_ROOT as in the tests
MEDIA_URL == <<"/", "media", "/">>
MEDIA_ROOT == <<"/", "app", "/", "media">>

Extensions == {".webm", ".ogg", ".mp3"}

\* str.startswith
startswith(path, prefix) ==
    Len(path) >= Len(prefix) /\ SubSeq(path, 1, Len(prefix)) = prefix

\* os.path.isabs
isabs(path) == path # <<>> /\ path[1] = "/"

\* os.path.join(a, b): an absolute b discards a
join(a, b) ==
    IF isabs(b) THEN b
    ELSE IF a = <<>> \/ a[Len(a)] = "/" THEN a \o b
    ELSE a \o <<"/">> \o b

\* the index of the last separator of a path, 0 when it has none
LastSep(path) ==
    IF \E i \in 1..Len(path) : path[i] = "/"
    THEN CHOOSE i \in 1..Len(path) :
            path[i] = "/" /\ \A j \in (i + 1)..Len(path) : path[j] # "/"
    ELSE 0

\* head.rstrip('/') unless head is all separators
RECURSIVE rstrip(_)
rstrip(head) ==
    IF head # <<>> /\ head[Len(head)] = "/" /\ (\E i \in 1..Len(head) : head[i] # "/")
    THEN rstrip(SubSeq(head, 1, Len(head) - 1))
    ELSE head

\* os.path.dirname and os.path.basename
dirname(path) == rstrip(SubSeq(path, 1, LastSep(path)))
basename(path) == SubSeq(path, LastSep(path) + 1, Len(path))

\* os.path.splitext(name)[0]
splitext0(name) ==
    IF Len(name) > 1 /\ name[Len(name)] \in Extensions
    THEN SubSeq(name, 1, Len(name) - 1)
    ELSE name

\* mimetypes.guess_type(full_path)[0], and the fallback on '.webm'
guess_type(path) ==
    LET name == basename(path)
        ext == IF Len(name) > 1 THEN name[Len(name)] ELSE "none"
    IN  CASE ext = ".webm" -> "video/webm"
          [] ext = ".ogg" -> "audio/ogg"
          [] ext = ".mp3" -> "audio/mpeg"
          [] OTHER -> IF path # <<>> /\ path[Len(path)] = ".webm"
                      THEN "video/webm" ELSE None

\* what subprocess.run(['ffmpeg', ...], check=True) can do: exit 0 with the
\* output written, exit 0 with no output file there, a non-zero exit
\* (CalledProcessError), no ffmpeg to run (FileNotFoundError)
FfmpegOutcomes == {"ok", "no output", "CalledProcessError", "FileNotFoundError"}

\* the files there are once ffmpeg has run
AfterFfmpeg(files, output_path, ffmpeg) ==
    CASE ffmpeg = "ok" -> files \cup {output_path}
      [] ffmpeg = "no output" -> files \ {output_path}
      [] OTHER -> files

\* "Return path in same format as input"
SameFormatAbsolute(media_path, output_filename, output_path) == output_path
SameFormat(media_path, output_filename, output_path) ==
    IF startswith(media_path, MEDIA_URL)
    THEN LET relative_path == SubSeq(media_path, Len(MEDIA_URL) + 1, Len(media_path))
             rel_dir == dirname(relative_path)
             new_rel_path == join(rel_dir, output_filename)
         IN  join(MEDIA_URL, new_rel_path)
    ELSE IF ~ isabs(media_path)
    THEN join(dirname(media_path), output_filename)
    ELSE output_path

convert_media_for_whatsapp(media_path, files, ffmpeg) ==
    LET full_path ==
            IF startswith(media_path, MEDIA_URL)
            THEN join(MEDIA_ROOT, SubSeq(media_path, Len(MEDIA_URL) + 1, Len(media_path)))
            ELSE IF ~ isabs(media_path)
            THEN join(MEDIA_ROOT, media_path)
            ELSE media_path
        mime_type == guess_type(full_path)
        output_filename == splitext0(basename(full_path)) \o <<".ogg">>
        output_path == join(dirname(full_path), output_filename)
    IN  IF full_path \notin files THEN media_path
        ELSE IF mime_type \notin {"video/webm", "audio/webm"} THEN media_path
        ELSE IF ffmpeg \in {"CalledProcessError", "FileNotFoundError"} THEN media_path
        ELSE IF output_path \in AfterFfmpeg(files, output_path, ffmpeg)
        THEN SameFormat(media_path, output_filename, output_path)
        ELSE media_path

\* paths below MEDIA_ROOT, in it or in a directory of it
MediaFiles ==
    {dir \o <<"test", ext>> :
        dir \in {<<>>, <<"whatsapp", "/", "uploads", "/">>}, ext \in Extensions}

\* the three forms of a media path, and an absolute one outside MEDIA_ROOT
MediaPaths ==
    {MEDIA_URL \o f : f \in MediaFiles}
        \cup MediaFiles
        \cup {MEDIA_ROOT \o <<"/">> \o f : f \in MediaFiles}
        \cup {<<"/", "tmp", "/", "test", ext>> : ext \in Extensions}

\* the file a media path names
FullPath(media_path) ==
    IF startswith(media_path, MEDIA_URL)
    THEN MEDIA_ROOT \o <<"/">> \o SubSeq(media_path, Len(MEDIA_URL) + 1, Len(media_path))
    ELSE IF media_path[1] # "/" THEN MEDIA_ROOT \o <<"/">> \o media_path
    ELSE media_path

\* a call of the function: its argument, the files there are (the one named
\* and an .ogg left beside it, each there or not) and what ffmpeg will do
InitMedia ==
    /\ accounts = RegisteredPhoneNumberIds
    /\ ai_config = {}
    /\ contacts = {KnownContact}
    /\ conversations = {KnownConversation}
    /\ messages = {KnownMessage}
    /\ queue = {}
    /\ inflight = {}
    /\ issued = {}
    /\ ops = 0
    /\ \E media_path \in MediaPaths, ffmpeg \in FfmpegOutcomes :
       \E files \in SUBSET {FullPath(media_path),
                            [FullPath(media_path) EXCEPT ![Len(FullPath(media_path))] = ".ogg"]} :
          last = [op |-> "call", media_path |-> media_path, files |-> files,
                  ffmpeg |-> ffmpeg, result |-> <<>>]

convert_media ==
    /\ last.op = "call"
    /\ last' = [last EXCEPT
                  !.op = "convert_media_for_whatsapp",
                  !.result = convert_media_for_whatsapp(last.media_path, last.files,
                                                        last.ffmpeg)]
    /\ UNCHANGED <<db, queue, inflight, issued, ops>>

NextMedia == convert_media

SpecMedia == InitMedia /\ [][NextMedia]_vars

-----------------------------------------------------------------------------
(* The delivery status of outgoing messages: the part of the pipeline that  *)
(* writes Message.delivery_status (the webhook and its tasks, send_text and *)
(* its send task), started from a later state: a text message was sent to  *)
(* the known customer some time ago, Meta answered with its id, and a       *)
(* status webhook has set it to 'read'. The account has no AI bot.          *)

ReadMessage ==
    Message(MsgId(0, "text", 0), KnownConversation.id,
            IssuedWamid(MsgId(0, "text", 0), 1), "outgoing", "text", "read", FALSE)

InitRead ==
    /\ accounts = RegisteredPhoneNumberIds
    /\ ai_config = {}
    /\ contacts = {KnownContact}
    /\ conversations = {KnownConversation}
    /\ messages = {KnownMessage, ReadMessage}
    /\ queue = {}
    /\ inflight = {}
    /\ issued = {ReadMessage.whatsapp_id}
    /\ ops = 0
    /\ last = Outcome("init", 0, "none", 0, NoEvents)

NextStatus ==
    \/ webhook_post
    \/ \E t \in queue : process_webhook_payload(t)
    \/ \E t \in queue : process_incoming_message(t)
    \/ \E t \in queue : send_whatsapp(t)
    \/ \E t \in queue : process_status_update(t)
    \/ send_text

SpecRead == InitRead /\ [][NextStatus]_vars

-----------------------------------------------------------------------------
(* Conversation.last_message_at. Every place that creates a Message does    *)
(* the same three things, in a worker or request of its own and with no     *)
(* lock or transaction around them: Message.objects.create (created_at is   *)
(* auto_now_add), whose post_save receiver update_conversation_timestamp    *)
(* assigns timezone.now() to conversation.last_message_at and saves it,     *)
(* and then its own "conversation.last_message_at = timezone.now();         *)
(* conversation.save(update_fields=['last_message_at'])". In this           *)
(* specification the rows carry their timestamps, inflight holds the        *)
(* creations that are running, and last.now is the time of the last step:   *)
(* the clock advances from step to step.                                    *)

\* a row with one more column
WithColumn(row, column, value) ==
    [f \in DOMAIN row \cup {column} |-> IF f = column THEN value ELSE row[f]]

\* timezone.now() at the step that is taken
Now == last.now + 1

\* a creation that is running: the place it is at, and the value it has
\* assigned to conversation.last_message_at of its Conversation object
Creation(kind, id) ==
    [name |-> kind, id |-> id, pc |-> "signal_now", last_message_at |-> 0]

InitTimestamps ==
    /\ accounts = RegisteredPhoneNumberIds
    /\ ai_config = {}
    /\ contacts = {KnownContact}
    /\ conversations = {WithColumn(KnownConversation, "last_message_at", 0)}
    /\ messages = {WithColumn(KnownMessage, "created_at", 0)}
    /\ queue = {}
    /\ inflight = {}
    /\ issued = {}
    /\ ops = 0
    /\ last = [op |-> "init", id |-> 0, now |-> 0]

\* Message.objects.create(conversation=conversation, ...) in one of the places
timestamp_message_create ==
    /\ ops < MaxOps
    /\ \E kind \in MessageKinds :
          /\ messages' = messages \cup
                {WithColumn(CreatedMessage(kind, ops + 1), "created_at", Now)}
          /\ inflight' = inflight \cup {Creation(kind, ops + 1)}
          /\ last' = [op |-> "create", id |-> ops + 1, now |-> Now]
    /\ ops' = ops + 1
    /\ UNCHANGED <<accounts, ai_config, contacts, conversations, queue, issued>>

\* conversation.last_message_at = timezone.now(), in the receiver and after it
timestamp_now(p) ==
    /\ p.pc \in {"signal_now", "now"}
    /\ inflight' = (inflight \ {p}) \cup
          {[p EXCEPT !.last_message_at = Now,
                     !.pc = IF p.pc = "signal_now" THEN "signal_save" ELSE "save"]}
    /\ last' = [op |-> "now", id |-> p.id, now |-> Now]
    /\ UNCHANGED <<db, queue, issued, ops>>

\* the column a save(update_fields=['last_message_at']) writes
SavedTimestamp(row, p) == p.last_message_at

\* conversation.save(update_fields=['last_message_at', ...]): an UPDATE of the
\* column with the value assigned before
timestamp_save(p) ==
    /\ p.pc \in {"signal_save", "save"}
    /\ conversations' =
          {[c EXCEPT !.last_message_at = SavedTimestamp(c, p)] : c \in conversations}
    /\ inflight' = IF p.pc = "signal_save"
                   THEN (inflight \ {p}) \cup {[p EXCEPT !.pc = "now"]}
                   ELSE inflight \ {p}
    /\ last' = [op |-> "save", id |-> p.id, now |-> Now]
    /\ UNCHANGED <<accounts, ai_config, contacts, messages, queue, issued, ops>>

NextTimestamps ==
    \/ timestamp_message_create
    \/ \E p \in inflight : timestamp_now(p)
    \/ \E p \in inflight : timestamp_save(p)

SpecTimestamps == InitTimestamps /\ [][NextTimestamps]_vars

-----------------------------------------------------------------------------
(* Properties.                                                              *)

\* the same task: a retry changes its retries and countdown, not its identity
SameTask(t, u) == t.name = u.name /\ t.id = u.id /\ t.msg = u.msg

\* the tasks this step has put on the queue with .delay()
Enqueued ==
    {u \in queue' : u.pc = "queued" /\ u.retries = 0 /\ \A t \in queue : ~ SameTask(t, u)}

\* C1: the pipeline stages of an incoming message happen in order: the webhook
\* view (answering 200 for a registered account) enqueues
\* process_webhook_payload, which enqueues process_incoming_message; when
\* process_ai_response is enqueued the incoming Message row is in the database;
\* when process_ai_response enqueues send_whatsapp_message the AI's outgoing
\* Message row is in the database; a status update is applied to an outgoing
\* message only when its whatsapp_id is an id Meta has issued, which only the
\* send task stores.
C1_PipelineOrder ==
    [][ /\ \A u \in Enqueued :
            /\ u.name = "process_webhook_payload" =>
                  /\ last'.op = "webhook"
                  /\ last'.http = 200
                  /\ u.pnid \in accounts
            /\ u.name = "process_incoming_message" =>
                  \E t \in queue : /\ t.name = "process_webhook_payload"
                                   /\ t.id = u.id
                                   /\ t \notin queue'
            /\ u.name = "process_ai_response" =>
                  \E t \in queue, m \in messages' :
                      /\ t.name = "process_incoming_message"
                      /\ t.id = u.id
                      /\ t \notin queue'
                      /\ m.direction = "incoming"
                      /\ m.whatsapp_id = t.wid
                      /\ m.conversation = u.conv
            /\ (u.name = "send_whatsapp_message" /\ last'.op = "process_ai_response") =>
                  \E m \in messages' : /\ m.id = u.msg
                                       /\ m.direction = "outgoing"
                                       /\ m.ai_generated
        /\ \A t \in queue :
            (t.name = "process_status_update" /\ t \notin queue') =>
                \A m \in messages :
                    (m.direction = "outgoing" /\ m \notin messages') =>
                        /\ m.whatsapp_id \in issued
                        /\ m.whatsapp_id.kind \notin TempPrefixes
      ]_vars

\* C1 witness: a status update has been applied to an AI reply that carries the
\* id Meta issued for it
C1_Witness ==
    /\ last.op = "process_status_update"
    /\ last.result = "updated"
    /\ \E m \in messages : /\ m.ai_generated
                           /\ m.whatsapp_id \in issued
                           /\ m.delivery_status = "read"

\* C2: there is at most one Conversation per (account, contact) pair, and a task
\* or request that gets or creates the conversation of a pair that has one is
\* handed that one and creates none.
C2_OneConversationPerPair ==
    [][ /\ \A c1, c2 \in conversations' :
            (c1.account = c2.account /\ c1.contact = c2.contact) => c1 = c2
        /\ \A u \in queue' \ queue :
            (u.name = "process_incoming_message" /\ u.pc = "message_create") =>
                /\ u.conv \in {c.id : c \in ConversationsOf(u.pnid, u.contact)'}
                /\ ConversationsOf(u.pnid, u.contact) # {} =>
                      /\ conversations' = conversations
                      /\ u.conv \in {c.id : c \in ConversationsOf(u.pnid, u.contact)}
        /\ \A u \in inflight' \ inflight :
            (u.name \in TemplateSenders /\ u.pc = "message") =>
                /\ u.conv \in {c.id : c \in ConversationsOf(u.account, u.contact)'}
                /\ ConversationsOf(u.account, u.contact) # {} =>
                      /\ conversations' = conversations
                      /\ u.conv \in {c.id : c \in ConversationsOf(u.account, u.contact)}
        /\ (last'.op = "conversation_create" /\ last'.conv # NoConv /\ ops' = ops) =>
                \A r \in inflight \ inflight' :
                    /\ last'.conv \in {c.id : c \in ConversationsOf(r.account, r.contact)'}
                    /\ ConversationsOf(r.account, r.contact) # {} =>
                          /\ conversations' = conversations
                          /\ last'.conv \in
                                {c.id : c \in ConversationsOf(r.account, r.contact)}
        /\ (last'.op = "conversation_create" /\ last'.conv # NoConv /\ ops' # ops) =>
                /\ conversations' = conversations
                /\ last'.conv \in {c.id : c \in conversations}
      ]_vars

\* C2 witness: a conversation-create request found no conversation, lost the
\* race to a concurrent creator and answered with the existing conversation
C2_Witness ==
    /\ last.op = "conversation_create"
    /\ last.result = "existing after IntegrityError"
    /\ last.conv \in {c.id : c \in conversations}

\* C3: no two Message rows share a whatsapp_id, and when
\* process_incoming_message has run its Message.objects.create for a message id
\* (its conversation still there), exactly one row has that whatsapp_id.
C3_OneRowPerWhatsappId ==
    [][ /\ \A m1, m2 \in messages' : m1.whatsapp_id = m2.whatsapp_id => m1 = m2
        /\ \A t \in queue :
            (/\ t.name = "process_incoming_message"
             /\ t.pc = "message_create"
             /\ t \notin queue'
             /\ ConversationExists(t.conv)) =>
                Cardinality({m \in messages' : m.whatsapp_id = t.wid}) = 1
      ]_vars

\* C3 witness: the same message id was delivered twice; the second create was
\* refused and one row holds the id
C3_Witness ==
    /\ last.op = "process_incoming_message"
    /\ last.result = "IntegrityError"
    /\ last.id = 2
    /\ \E m \in messages : m.whatsapp_id = IncomingWamid(1) /\ m.id = MsgId(1, "in", 0)

\* C4: every Message refers to an existing Conversation, every Conversation to
\* an existing Contact and WhatsAppAccount, every Contact to an existing account.
C4_NoOrphans ==
    /\ \A m \in messages : ConversationExists(m.conversation)
    /\ \A c \in conversations : ContactExists(c.contact) /\ AccountExists(c.account)
    /\ \A c \in contacts : AccountExists(c.account)

\* C4 witness: a conversation with messages has been destroyed while another
\* conversation and its messages remain
C4_Witness ==
    /\ last.op = "conversation_destroy"
    /\ last.result = "deleted"
    /\ last.conv = ConvId(0, 0)
    /\ messages # {}
    /\ KnownMessage \notin messages

\* C5: each Message's delivery_status is one of sent, delivered, read, failed.
C5_StatusInChoices ==
    \A m \in messages : m.delivery_status \in {"sent", "delivered", "read", "failed"}

\* C5 case: a status webhook named a stored message and carried a status that
\* is none of Message.DeliveryStatus; the task stored it
C5_Witness ==
    /\ last.op = "process_status_update"
    /\ last.result = "updated"
    /\ \E m \in messages : /\ m.delivery_status = "deleted"
                           /\ m.direction = "outgoing"
                           /\ m.whatsapp_id \in issued

\* C6: when process_status_update runs for a status whose id is the whatsapp_id
\* of a Message, that message's delivery_status becomes the update's status, no
\* other row changes, and the events sent to 'inbox_updates' are the one
\* status_update event with the message id, conversation id, whatsapp id and
\* new status, or none when the push failed, the status being saved all the same.
C6_StatusApplied ==
    [][ \A t \in queue :
          (/\ t.name = "process_status_update"
           /\ t \notin queue'
           /\ MessagesByWhatsappId(t.wid) # {}) =>
              \E m \in MessagesByWhatsappId(t.wid) :
                  /\ messages' = (messages \ {m}) \cup
                                    {[m EXCEPT !.delivery_status = t.status]}
                  /\ last'.events \in
                        {<<[type |-> "send_status_update", message_id |-> m.id,
                            conversation_id |-> m.conversation, whatsapp_id |-> t.wid,
                            delivery_status |-> t.status]>>,
                         <<>>}
      ]_vars

\* C6 witness: a status update was applied and its event pushed
C6_Witness ==
    /\ last.op = "process_status_update"
    /\ last.result = "updated"
    /\ Len(last.events) = 1
    /\ \E m \in messages : /\ m.id = last.events[1].message_id
                           /\ m.delivery_status = "delivered"
                           /\ last.events[1].delivery_status = "delivered"

\* C7: when process_status_update finds no Message with the update's
\* whatsapp_id and has been retried fewer than 5 times, it is queued again with
\* a countdown of 2 seconds.
C7_StatusRetried ==
    [][ \A t \in queue :
          (/\ t.name = "process_status_update"
           /\ t \notin queue'
           /\ MessagesByWhatsappId(t.wid) = {}
           /\ t.retries < 5) =>
              [t EXCEPT !.retries = @ + 1, !.countdown = 2] \in queue'
      ]_vars

\* C7 case: a status update whose id no Message carries yet (the send task has
\* Meta's answer and has not saved it) ended with NameError and is on no queue
C7_Witness ==
    /\ last.op = "process_status_update"
    /\ last.result = "NameError"
    /\ \A t \in queue : t.name # "process_status_update"
    /\ \E t \in queue : /\ t.name \in SendTaskNames
                        /\ t.pc = "save"
                        /\ t.resp = "ok_id"
                        /\ MessagesByWhatsappId(IssuedWamid(t.msg, t.posts)) = {}

\* what C8 says of the save after Meta's answer, the retry being the part the
\* original and the amended claim differ in
C8_AfterAnswer(t, retried) ==
    \E m \in MessageById(t.msg) :
        \E m2 \in messages' :
            /\ m2.id = t.msg
            /\ IF t.resp \in {"ok_id", "ok_noid"}
               THEN /\ m2.delivery_status = "sent"
                    /\ t.resp = "ok_id" =>
                          /\ m2.whatsapp_id = IssuedWamid(t.msg, t.posts)
                          /\ m2.whatsapp_id \in issued
                    /\ t.resp = "ok_noid" => m2.whatsapp_id = m.whatsapp_id
               ELSE /\ m2.delivery_status = "failed"
                    /\ retried

C8_Retried(t) ==
    \E u \in queue' : /\ SameTask(t, u)
                      /\ u.pc = "queued"
                      /\ u.retries = t.retries + 1
                      /\ u.countdown = 30

C9_SendBounded ==
    [][ /\ \A u \in queue' :
            u.name \in SendTaskNames => u.posts <= 4 /\ u.retries <= 3
        /\ \A t \in queue :
            (t.name \in SendTaskNames /\ t \notin queue') =>
                /\ (t.pc = "queued" /\ MessageById(t.msg) = {}) =>
                      /\ last'.result = "error"
                      /\ last'.posts = 0
                      /\ issued' = issued
                      /\ \A u \in queue' : ~ SameTask(t, u)
                /\ t.retries = 3 =>
                      \A u \in queue' : SameTask(t, u) => u.pc = "save"
      ]_vars

\* C9 witness: a send task has made its 4th POST
C9_Witness ==
    \E t \in queue : t.name \in SendTaskNames /\ t.posts = 4 /\ t.pc = "save"

C11_WebhookGet ==
    (last.op = "webhook_get" /\ last.pnid \in accounts) =>
        /\ (last.http = 200) <=>
              (/\ last.mode = "subscribe"
               /\ last.token = webhook_verify_token[last.pnid])
        /\ (last.http = 200 /\ last.challenge # None) => last.body = last.challenge
        /\ (/\ last.mode = "subscribe"
            /\ last.token \notin {None, ""}
            /\ last.token # webhook_verify_token[last.pnid]) => last.http = 403
        /\ (last.mode # "subscribe" \/ last.token \in {None, ""}) => last.http = 400

\* C11 witness: Meta's verification request with the account's token was
\* answered with its challenge
C11_Witness ==
    /\ last.op = "webhook_get"
    /\ last.pnid \in accounts
    /\ last.mode = "subscribe"
    /\ last.token = webhook_verify_token[last.pnid]
    /\ last.http = 200
    /\ last.body = "1158201444"

\* C12: the response for a WhatsAppAccount or an AIConfig has no field
\* access_token, webhook_verify_token or api_key; it has the booleans
\* has_access_token, has_webhook_token and has_api_key, true exactly when the
\* secret is set; and every row that differs from the serialized one only in
\* the non-empty values of these secrets has the same response.
C12_SecretsNotSerialized ==
    /\ last.op = "WhatsAppAccountSerializer" =>
          /\ DOMAIN last.data \cap {"access_token", "webhook_verify_token"} = {}
          /\ last.data.has_access_token = (last.instance.access_token # "")
          /\ last.data.has_webhook_token = (last.instance.webhook_verify_token # "")
          /\ \A s1, s2 \in SecretValues \ {""} :
                (last.instance.access_token # "" /\ last.instance.webhook_verify_token # "")
                => WhatsAppAccountSerializer(
                      [last.instance EXCEPT !.access_token = s1,
                                            !.webhook_verify_token = s2]) = last.data
    /\ last.op = "AIConfigSerializer" =>
          /\ "api_key" \notin DOMAIN last.data
          /\ last.data.has_api_key = (last.instance.api_key # "")
          /\ \A s \in SecretValues \ {""} :
                last.instance.api_key # ""
                => AIConfigSerializer([last.instance EXCEPT !.api_key = s]) = last.data

\* C12 witness: an account with both tokens set has been serialized
C12_Witness ==
    /\ last.op = "WhatsAppAccountSerializer"
    /\ last.instance.access_token = "secret-A"
    /\ last.instance.webhook_verify_token = "secret-B"
    /\ last.data.has_access_token
    /\ last.data.has_webhook_token
    /\ last.data.name = last.instance.name

\* C13: process_ai_response is enqueued only for a conversation whose account
\* has an enabled AIConfig with an api_key when the incoming message is
\* processed; the task checks again when it runs: for an existing conversation
\* whose account then has no such configuration it returns 'skipped', creates
\* no message and enqueues nothing, and it goes on to generate a reply only
\* when the configuration is enabled; an AI-generated message is created only
\* by a task that passed this check.
C13_AIOnlyWhenEnabled ==
    [][ /\ \A u \in Enqueued :
            u.name = "process_ai_response" =>
                \E c \in ConversationById(u.conv) : c.account \in ai_config
        /\ \A t \in queue :
            (/\ t.name = "process_ai_response"
             /\ t.pc = "queued"
             /\ t \notin queue') =>
                \A c \in ConversationById(t.conv) :
                    IF c.account \in ai_config
                    THEN [t EXCEPT !.pc = "generate"] \in queue'
                    ELSE /\ last'.op = "process_ai_response"
                         /\ last'.result = "skipped"
                         /\ messages' = messages
                         /\ queue' = queue \ {t}
        /\ \A m \in messages' :
            (m.ai_generated /\ MessageById(m.id) = {}) =>
                \E t \in queue : /\ t.name = "process_ai_response"
                                 /\ t.pc = "generate"
                                 /\ t.conv = m.conversation
                                 /\ t \notin queue'
      ]_vars

\* C13 witness: the AI task of the first webhook's message was enqueued, the
\* configuration was then disabled, and the task returned 'skipped' for its
\* conversation, which is still there
C13_Witness ==
    /\ last.op = "process_ai_response"
    /\ last.result = "skipped"
    /\ last.id = 1
    /\ ops = 2
    /\ ai_config = {}
    /\ \E m \in messages : m.id = MsgId(1, "in", 0) /\ ConversationExists(m.conversation)
    /\ \A m \in messages : ~ m.ai_generated
    /\ queue = {}

\* C14: every step of process_ai_response ends in a returned result and never
\* in a raised exception: 'error' when the conversation does not exist, and
\* 'error', 'skipped' or 'success' otherwise; a step that returns 'error' or
\* 'skipped' creates no message and enqueues nothing; a step returns 'success'
\* only together with exactly one new Message (outgoing, text, ai_generated,
\* of the task's conversation) and exactly one new task, send_whatsapp_message
\* for that message.
C14_AIResponseNeverRaises ==
    [][ \A t \in queue :
          (t.name = "process_ai_response" /\ t \notin queue') =>
              /\ last'.op = "process_ai_response"
              /\ last'.result \in {"running", "error", "skipped", "success"}
              /\ last'.result = "running" <=> [t EXCEPT !.pc = "generate"] \in queue'
              /\ (t.pc = "queued" /\ ConversationById(t.conv) = {}) =>
                    last'.result = "error"
              /\ last'.result \in {"error", "skipped"} =>
                    /\ messages' = messages
                    /\ queue' = queue \ {t}
              /\ last'.result = "success" =>
                    \E m \in messages' :
                        /\ m \notin messages
                        /\ messages' = messages \cup {m}
                        /\ m.direction = "outgoing"
                        /\ m.message_type = "text"
                        /\ m.ai_generated
                        /\ m.conversation = t.conv
                        /\ \E u \in queue' :
                              /\ queue' = (queue \ {t}) \cup {u}
                              /\ u \notin queue
                              /\ u.name = "send_whatsapp_message"
                              /\ u.pc = "queued"
                              /\ u.msg = m.id
      ]_vars

\* C14 witness: the task returned 'success'; its reply is stored and its send
\* task waits on the queue
C14_Witness ==
    /\ last.op = "process_ai_response"
    /\ last.result = "success"
    /\ \E m \in messages, u \in queue :
          /\ m.ai_generated
          /\ m.direction = "outgoing"
          /\ u.name = "send_whatsapp_message"
          /\ u.pc = "queued"
          /\ u.msg = m.id

\* what C15 says the body is: the parameters a request sends for the body
C15_SentParameters(components) ==
    IF \E i \in 1..Len(components) : components[i].type = "body"
    THEN components[CHOOSE i \in 1..Len(components) : components[i].type = "body"].parameters
    ELSE <<>>

\* the unnamed text parameters, in their order
C15_Unnamed(params) ==
    SelectSeq(params, LAMBDA p : p.type = "text" /\ p.parameter_name = None)

\* the text parameters with the parameter_name key
C15_Named(params, key) ==
    SelectSeq(params, LAMBDA p : p.type = "text" /\ p.parameter_name = key)

\* one piece of the BODY text with its placeholder, if it is one, replaced
C15_Piece(piece, params) ==
    LET unnamed == C15_Unnamed(params)
        keys == {params[i].parameter_name : i \in 1..Len(params)} \ {None}
    IN  IF \E k \in keys : piece = Placeholder(k) /\ C15_Named(params, k) # <<>>
        THEN LET k == CHOOSE k \in keys : piece = Placeholder(k)
                 named == C15_Named(params, k)
             IN  named[Len(named)].text
        ELSE IF \E n \in 1..Len(unnamed) : piece = Placeholder(ToString(n))
        THEN unnamed[CHOOSE n \in 1..Len(unnamed) : piece = Placeholder(ToString(n))].text
        ELSE <<piece>>

\* the BODY text with every placeholder replaced by its parameter
RECURSIVE C15_Replaced(_, _)
C15_Replaced(text, params) ==
    IF text = <<>> THEN <<>>
    ELSE C15_Piece(Head(text), params) \o C15_Replaced(Tail(text), params)

\* the BODY text of the request's template when it is there, APPROVED, and has
\* a BODY component with a text; the empty text otherwise
C15_BodyText ==
    LET t == last.template
        bodies == IF t.components.is_dict THEN {}
                  ELSE {i \in 1..Len(t.components.list) :
                            t.components.list[i].type = "BODY"}
    IN  IF /\ t # NoTemplate
           /\ t.name = last.template_name
           /\ t.language = last.template_language
           /\ t.status = "APPROVED"
           /\ bodies # {}
        THEN t.components.list[CHOOSE i \in bodies : \A j \in bodies : i <= j].text
        ELSE <<>>

C15_Expected ==
    IF C15_BodyText = <<>>
    THEN <<"[Template: " \o last.template_name \o "]">>
    ELSE C15_Replaced(C15_BodyText, C15_SentParameters(last.components))

\* the view's code and the service's code give the same body for the request
C15_SameBody ==
    _render_template_body(last.template, "pn1", last.template_name,
                          last.template_language, last.components)
    = view_rendered_body(last.template, "pn1", last.template_name,
                         last.template_language, last.components)

\* a parameter of the request has a placeholder in its value
C15_PlaceholderInValue ==
    LET params == C15_SentParameters(last.components)
    IN  \E i \in 1..Len(params) : \E n \in 1..MaxParams :
            /\ params[i].type = "text"
            /\ \E j \in 1..Len(params[i].text) :
                   params[i].text[j] \in {Placeholder(ToString(n)), Placeholder("nombre")}

\* C15: the stored body of a template message is the BODY text of the account's
\* APPROVED template of that name and language with every named placeholder
\* replaced by the text parameter of that parameter_name and every positional
\* placeholder {{n}} by the n-th unnamed text parameter, or the fallback
\* '[Template: <name>]' when the template is missing, not APPROVED, has no
\* BODY or an empty BODY text; the send_template view, bulk_send_template and
\* the service give the same body.
C15_TemplateBody ==
    last.op = "render_template_body" =>
        /\ last.body = C15_Expected
        /\ C15_SameBody

\* C15 for requests no parameter value of which has a placeholder in it
C15_TemplateBodyPlainValues ==
    last.op = "render_template_body" =>
        /\ ~ C15_PlaceholderInValue => last.body = C15_Expected
        /\ C15_SameBody

\* C15 case: the first parameter's value is the text {{2}}; the body has the
\* second parameter's value in the place of {{1}}
C15_Witness ==
    /\ last.op = "render_template_body"
    /\ C15_BodyText = <<"Hola ", "{{1}}", " y ", "{{2}}">>
    /\ Len(C15_SentParameters(last.components)) = 2
    /\ C15_SentParameters(last.components)[1].text = <<"{{2}}">>
    /\ C15_SentParameters(last.components)[2].text = <<"Ana">>
    /\ C15_SentParameters(last.components)[2].parameter_name = None
    /\ last.body = <<"Hola ", "Ana", " y ", "Ana">>
    /\ C15_Expected = <<"Hola ", "{{2}}", " y ", "Ana">>

\* C16: send_template_to_contact never raises; it answers success only in the
\* step that creates the outgoing template message m with a temporary
\* whatsapp_id, in a conversation that was there before that step, and
\* enqueues exactly one send_whatsapp_template task for m; when it answers
\* failure, no task is enqueued.
C16_SendTemplateResult ==
    [][last'.op = "send_template_to_contact" =>
        /\ last'.result \in {"running", "success", "failed"}
        /\ last'.result = "success" =>
              \E m \in messages' :
                  /\ MessageById(m.id) = {}
                  /\ messages' = messages \cup {m}
                  /\ m.id.op = last'.id
                  /\ m.direction = "outgoing"
                  /\ m.message_type = "template"
                  /\ m.whatsapp_id.kind = "temp-"
                  /\ ConversationById(m.conversation) # {}
                  /\ conversations' = conversations
                  /\ \E t \in queue' :
                        /\ t \notin queue
                        /\ queue' = queue \cup {t}
                        /\ t.name = "send_whatsapp_template"
                        /\ t.msg = m.id
                        /\ t.pc = "queued"
        /\ last'.result # "success" =>
              /\ queue' = queue
              /\ messages' = messages
    ]_vars

\* C16 case: the service has answered success for a contact, and the message
\* and its task are there
C16_Witness ==
    /\ last.op = "send_template_to_contact"
    /\ last.result = "success"
    /\ \E m \in messages :
          /\ m.id.op = last.id
          /\ m.whatsapp_id.kind = "temp-"
          /\ \E t \in queue : t.name = "send_whatsapp_template" /\ t.msg = m.id

\* C16 case: the service has answered failure, and no task of it was enqueued
C16_WitnessFailed ==
    /\ last.op = "send_template_to_contact"
    /\ last.result = "failed"
    /\ \A t \in queue : t.id # last.id

\* the owner of the account with this pk, before the step
C17_OwnerOf(pk) ==
    IF \E a \in accounts : a.id = pk
    THEN (CHOOSE a \in accounts : a.id = pk).owner
    ELSE NoUser

C17_AccountOps ==
    {"account_list", "account_retrieve", "account_create", "account_update",
     "account_destroy"}

C17_AIConfigOps ==
    {"ai_config_list", "ai_config_retrieve", "ai_config_create", "ai_config_update",
     "ai_config_destroy"}

\* C17: a request to WhatsAppAccountViewSet or AIConfigViewSet lists, reads,
\* updates and deletes only accounts the requesting user owns and AI
\* configurations of accounts that user owns; an account it creates is owned
\* by the requesting user, and an AIConfig is attached only to an account of
\* the requesting user.
C17_OwnRowsOnly ==
    [][last'.op \in C17_AccountOps \cup C17_AIConfigOps =>
        LET user == last'.user IN
        /\ last'.op \in {"account_list", "account_retrieve"} =>
              \A a \in last'.data : a \in accounts /\ a.owner = user
        /\ last'.op \in {"ai_config_list", "ai_config_retrieve"} =>
              \A c \in last'.data : c \in ai_config /\ C17_OwnerOf(c) = user
        /\ (last'.result = "ok" /\ last'.pk # None /\ last'.op # "account_create") =>
              C17_OwnerOf(last'.pk) = user
        /\ \A a \in accounts \ accounts' : a.owner = user
        /\ \A a \in accounts' \ accounts :
              IF last'.op = "account_create"
              THEN a.owner = user /\ (\A b \in accounts : b.id # a.id)
              ELSE last'.op = "account_update" /\ a.id = last'.pk
        /\ \A c \in ai_config \ ai_config' : C17_OwnerOf(c) = user
        /\ \A c \in ai_config' \ ai_config :
              /\ last'.op \in {"ai_config_create", "ai_config_update"}
              /\ C17_OwnerOf(c) = user
    ]_vars

\* C17 case: u2 asks for an account of u1 and gets 404, the account still there
C17_Witness ==
    /\ last.op \in {"account_retrieve", "account_update", "account_destroy"}
    /\ last.user = "u2"
    /\ last.result = "not found"
    /\ WhatsAppAccount(last.pk, "u1") \in accounts

\* C17 case: u1 has attached an AIConfig to an account of theirs while u2 owns
\* another account
C17_WitnessAttached ==
    /\ last.op = "ai_config_create"
    /\ last.user = "u1"
    /\ last.result = "ok"
    /\ WhatsAppAccount(last.pk, "u1") \in accounts
    /\ \E a \in accounts : a.owner = "u2"

\* the events a step sends to the group
C18_Sent == SubSeq(issued', Len(issued) + 1, Len(issued'))

\* the rows a step creates
C18_Created == {m \in messages' : MessageById(m.id) = {}}

\* the events of the new_message frames a consumer has sent to its client
C18_Forwarded(c) == [i \in 1..(Len(c.client) - 1) |-> c.client[i + 1].message]

C18_Step ==
    /\ Len(issued') >= Len(issued)
    /\ SubSeq(issued', 1, Len(issued)) = issued
    /\ C18_Created # {} =>
          \E m \in C18_Created :
              /\ C18_Created = {m}
              /\ last'.result \in {"pushed", "push failed"}
              /\ last'.result = "pushed" =>
                    /\ Len(C18_Sent) = 1
                    /\ C18_Sent[1].type = "send_new_message"
                    /\ C18_Sent[1].message_id = m.id
              /\ last'.result = "push failed" => C18_Sent = <<>>
    /\ C18_Created = {} => C18_Sent = <<>>
    /\ \A c \in inflight, d \in inflight' :
          (c.id = d.id /\ c.joined = d.joined /\ Len(d.client) >= Len(c.client)) =>
              C18_Forwarded(d) \o d.channel = C18_Forwarded(c) \o c.channel \o C18_Sent

\* every connected consumer has forwarded, or has in its channel, each event
\* sent to the group since it connected, in the order sent
C18_Delivered ==
    \A c \in inflight :
        /\ C18_Forwarded(c) \o c.channel = SubSeq(issued, c.joined + 1, Len(issued))
        /\ \A i \in 2..Len(c.client) : c.client[i].type = "new_message"

\* C18: every creation of a Message row (incoming, manual, template, AI) sends
\* one new_message event to 'inbox_updates' -- none when the push fails, and
\* the row is saved all the same --, later saves of the row send none, and
\* every consumer that is connected forwards each event sent to its client.
C18_NewMessagePush ==
    /\ [][C18_Step]_vars
    /\ []C18_Delivered
    /\ <>[](\A c \in inflight : c.channel = <<>>)

\* C18 case: two messages were created and pushed, a consumer connected in
\* between has forwarded the second only, and a later save sent nothing
C18_Witness ==
    /\ last.op = "message_save"
    /\ Len(issued) = 2
    /\ \E c \in inflight :
          /\ c.joined = 1
          /\ c.channel = <<>>
          /\ Len(c.client) = 2
          /\ c.client[2].type = "new_message"
          /\ c.client[2].message = issued[2]

\* C18 case: the push of a created message failed and the row is there
C18_WitnessPushFailed ==
    /\ last.op = "message_create"
    /\ last.result = "push failed"
    /\ last.events = NoEvents
    /\ \E m \in messages : m.id.op = last.id
    /\ inflight # {}

\* the form of a path: MEDIA_URL-prefixed, absolute, or relative to MEDIA_ROOT
C19_Form(path) ==
    IF Len(path) >= 3 /\ SubSeq(path, 1, 3) = <<"/", "media", "/">> THEN "MEDIA_URL"
    ELSE IF path[1] = "/" THEN "absolute"
    ELSE "relative"

\* the call is one of an existing WebM file that ffmpeg converts
C19_Converts ==
    /\ FullPath(last.media_path) \in last.files
    /\ last.media_path[Len(last.media_path)] = ".webm"
    /\ last.ffmpeg = "ok"

\* C19: convert_media_for_whatsapp returns, for an existing WebM file that
\* converts, the input path with its extension replaced by .ogg -- the same
\* directory and the same form, MEDIA_URL-prefixed, relative or absolute --
\* and the input path unchanged for a missing file, a file that is not WebM,
\* or a failed conversion.
C19_SameForm ==
    last.op = "convert_media_for_whatsapp" =>
        IF C19_Converts
        THEN /\ last.result = [last.media_path EXCEPT ![Len(last.media_path)] = ".ogg"]
             /\ C19_Form(last.result) = C19_Form(last.media_path)
        ELSE last.result = last.media_path

\* C19 case: the test's MEDIA_URL-prefixed WebM file, converted
C19_Witness ==
    /\ last.op = "convert_media_for_whatsapp"
    /\ C19_Converts
    /\ last.media_path =
          <<"/", "media", "/", "whatsapp", "/", "uploads", "/", "test", ".webm">>
    /\ last.result =
          <<"/", "media", "/", "whatsapp", "/", "uploads", "/", "test", ".ogg">>

\* C19 case: a relative WebM path whose conversion fails with an old .ogg there
C19_WitnessFailed ==
    /\ last.op = "convert_media_for_whatsapp"
    /\ last.media_path = <<"test", ".webm">>
    /\ last.ffmpeg = "CalledProcessError"
    /\ Cardinality(last.files) = 2
    /\ last.result = last.media_path

\* the place of a status in the lifecycle sent -> delivered -> read
C20_Rank(status) ==
    CASE status = "sent" -> 1
      [] status = "delivered" -> 2
      [] status = "read" -> 3
      [] OTHER -> 0

\* C20: the delivery_status of a message never moves backwards in the
\* lifecycle sent -> delivered -> read: a message that is 'read' is not set
\* back to 'delivered' or 'sent', one that is 'delivered' not back to 'sent'.
C20_StatusNeverBackwards ==
    [][\A m \in messages, n \in messages' :
          (m.id = n.id /\ C20_Rank(m.delivery_status) > 0
                       /\ C20_Rank(n.delivery_status) > 0) =>
              C20_Rank(n.delivery_status) >= C20_Rank(m.delivery_status)]_vars

\* C20 case: a message sent with send_text has Meta's id and is 'read'
C20_ReadReached ==
    \E m \in messages :
        /\ m.direction = "outgoing"
        /\ m.message_type = "text"
        /\ m.whatsapp_id \in issued
        /\ m.delivery_status = "read"

\* C20 case: a status update has set the message that was 'read' back to
\* 'delivered' or 'sent'
C20_Witness ==
    /\ last.op = "process_status_update"
    /\ last.result = "updated"
    /\ \E m \in messages :
          /\ m.id = ReadMessage.id
          /\ m.whatsapp_id = ReadMessage.whatsapp_id
          /\ m.delivery_status \in {"sent", "delivered"}
\* last_message_at does not decrease in a step
C21_NeverDecreases ==
    \A c \in conversations, d \in conversations' :
        c.id = d.id => d.last_message_at >= c.last_message_at

\* with nothing running, last_message_at is not before any message's created_at
C21_NotBeforeMessages ==
    inflight = {} =>
        \A c \in conversations, m \in messages :
            m.conversation = c.id => c.last_message_at >= m.created_at

\* C21: a conversation's last_message_at never decreases and, once all
\* running operations have finished, is not earlier than the created_at of
\* any of its messages, under any interleaving of concurrent message
\* creations.
C21_LastMessageAt ==
    /\ [][C21_NeverDecreases]_vars
    /\ []C21_NotBeforeMessages

\* C21 case: two creations have run and finished, and the conversation's
\* last_message_at is earlier than the created_at of one of its messages
C21_Witness ==
    /\ inflight = {}
    /\ ops = 2
    /\ last.op = "save"
    /\ \E c \in conversations, m \in messages :
          /\ m.conversation = c.id
          /\ c.last_message_at < m.created_at

====
